---- MODULE Spec2Model ----
(***************************************************************************)
(* Model of the backup crawl engine of gphoto-backup                       *)
(* (src/gphotosbackup/__init__.py, models.py, utils.py, src/main.py).      *)
(*                                                                         *)
(* Strings of the program are sequences of tokens: the file name "a.jpg"   *)
(* is <<"a", ".jpg">>, the relative path "2020/01/a.jpg" is                *)
(* <<"2020", "/", "01", "/", "a", ".jpg">>.  Python's None, and an absent  *)
(* row of the options table, is the empty sequence <<>>; a present value v *)
(* is <<v>>.                                                               *)
(***************************************************************************)
EXTENDS Integers, Sequences, FiniteSets, TLC

VARIABLES
    \* ---- durable state: the SQLite tables and the storage directory
    options,                    \* options table of the user: key -> <<>> | <<value>>
    mediaitems,                 \* mediaitems table, row id = index
    albums,                     \* albums table, row id = index
    albumitems,                 \* albumitems table, row id = index
    disk,                       \* paths that exist under <storage>/<email>/
    partial,                    \* those of them a download left incompletely written
    option_table,               \* rows of the options table as models.py stores them
    \* ---- process-wide state
    global_crawler_lock,        \* threading.Event of main.py
    \* ---- environment
    remote,                     \* the remote library and the answers it can give
    slots,                      \* request slots in use
    \* ---- one GPhotosBackup object per request slot
    gen,                        \* position of the run() generator
    current_cycle,              \* self.current_cycle
    crawling_termination_time,  \* self.crawling_termination_time, relative to now
    unpolled,                   \* ticks since run() last wrote the deadline
    output,                     \* local output of run(): the chunk of the last pass
    log_queue,                  \* self.log_queue
    pc,                         \* position of the crawl() thread
    backup_stage,               \* local backup_stage of crawl()
    album,                      \* local album of crawl(): <<>> | <<album row id>>
    response,                   \* local response of the page operation
    files_to_download,          \* local files_to_download, one DownloadInfo per item
    task,                       \* state of each handle_mediaitem call of the pool
    \* ---- observations
    fatal,                      \* why the crawl thread of a slot died
    trace,                      \* listing calls of the traversal in progress, items of
                                \* the page passes that ended without a failed call
    resume,                     \* per slot: what its run resumed from, its first call
    returned                    \* the last call of DB.get/set_user_option on
                                \* option_table, and what it returned or raised

storage == <<disk, partial>>
database == <<option_table, returned>>
durable == <<options, mediaitems, albums, albumitems, storage>>
fields  == <<current_cycle, crawling_termination_time, unpolled, output, log_queue>>
object  == <<gen, fields>>
thread  == <<pc, backup_stage, album, response, files_to_download, task>>
observe == <<fatal, trace, resume>>
vars    == <<durable, global_crawler_lock, remote, slots, database, object, thread, observe>>

----------------------------------------------------------------------------
(* Bounds *)

\* the deadline interval (10 s in the code), counted in clock ticks
LeaseTicks == 1
\* traversals a crawl may complete before the model stops starting pages
MaxCycle == 2
\* lines a progress queue may hold before the model stops starting pages
MaxQueue == 2

Slots == {1, 2}
None == <<>>
Some(v) == <<v>>

----------------------------------------------------------------------------
(* utils.py *)

MEDIA_ITEM == "mediaitem"
ALBUM      == "album"
ALBUM_ITEM == "albumitem"
END        == "end"
BackupStageValues == {MEDIA_ITEM, ALBUM, ALBUM_ITEM, END}

ITEM_AND_THUMBNAIL == "both"
THUMBNAIL_ONLY     == "thumbnail only"
NOT_READY          == "not ready"
ALREADY_DOWNLOADED == "already downloaded"

THUMBNAILS_FOLDER == <<"thumbnails">>

\* os.path.join of a folder and a file name
join(folder, filename) == folder \o <<"/">> \o filename

----------------------------------------------------------------------------
(* models.py: the options table *)

OptionKeys == {"next-page-token", "backup-stage", "backup-stage-args", "current-cycle"}

\* a lookup that finds no row
option_not_found(opts, key, default_value) == default_value

get_user_option(opts, key, default_value) ==
    IF opts[key] = None THEN default_value ELSE opts[key][1]

\* value is None (delete the row) or Some(v) (insert or update the row)
set_user_option(opts, key, value) == [opts EXCEPT ![key] = value]

----------------------------------------------------------------------------
(* models.py: DB.get_user_option and DB.set_user_option on the stored rows *)

\* Python values: None, str and int, each with its text
PyNone == [type |-> "NoneType", repr |-> "None"]
PyStr(text) == [type |-> "str", repr |-> text]
PyInt(n) == [type |-> "int", repr |-> ToString(n)]

\* SQL NULL in the value column, which is declared without nullable=False
NULL == <<"NULL">>

Digits == {ToString(n) : n \in 0..9}

\* json.dumps of a str, an int or None: a text as a sequence of tokens
json_dumps(value) ==
    IF value.type = "str" THEN <<"\"", value.repr, "\"">>
    ELSE IF value.type = "int" THEN <<value.repr>>
    ELSE <<"null">>

\* json.loads of a text: the decoded value, or JSONDecodeError
json_loads(text) ==
    IF Len(text) = 3 /\ text[1] = "\"" /\ text[3] = "\""
    THEN [raised |-> "", value |-> PyStr(text[2])]
    ELSE IF Len(text) = 1 /\ text[1] \in Digits
    THEN [raised |-> "", value |-> [type |-> "int", repr |-> text[1]]]
    ELSE IF text = <<"null">>
    THEN [raised |-> "", value |-> PyNone]
    ELSE [raised |-> "JSONDecodeError", value |-> PyNone]

\* select ... where user_id = .. and key = .. limit 1, .first()
option_records(table, user_id, key) ==
    {row \in table : row.user_id = user_id /\ row.key = key}

\* models.py lines 84-99. json.loads(None) raises TypeError, which the except
\* clause of line 97 does not name.
DB_get_user_option(table, user_id, key, default_value) ==
    LET found == option_records(table, user_id, key)
    IN  IF found = {} THEN [raised |-> "", value |-> default_value]
        ELSE LET option_record == CHOOSE row \in found : TRUE
             IN  IF option_record.value = NULL
                 THEN [raised |-> "TypeError", value |-> PyNone]
                 ELSE IF json_loads(option_record.value).raised # ""
                 THEN [raised |-> "", value |-> default_value]
                 ELSE json_loads(option_record.value)

\* a set_user_option that deletes the entry on every falsy value
DB_set_user_option_falsy(table, user_id, key, value) ==
    LET found == option_records(table, user_id, key)
    IN  IF value = PyNone \/ value.repr \in {"", "0"} THEN table \ found
        ELSE (table \ found)
                 \cup {[user_id |-> user_id, key |-> key, value |-> json_dumps(value)]}

\* models.py lines 101-126: delete on None; else insert, or update every row of
\* the user and key
DB_set_user_option(table, user_id, key, value) ==
    LET found == option_records(table, user_id, key)
    IN  IF value = PyNone THEN table \ found
        ELSE (table \ found)
                 \cup {[user_id |-> user_id, key |-> key, value |-> json_dumps(value)]}

\* no call on the stored rows yet
NoCall == [op |-> "none", user_id |-> 0, key |-> "", arg |-> PyNone,
           raised |-> "", value |-> PyNone]

----------------------------------------------------------------------------
(* models.py: the record tables *)

Rows(table) == 1..Len(table)

\* get_user_mediaitem_by(mediaitem_uid=uid): row id of the first match, 0 if none
mediaitem_by_uid(table, uid) ==
    IF \E i \in Rows(table) : table[i].mediaitem_uid = uid
    THEN CHOOSE i \in Rows(table) :
            /\ table[i].mediaitem_uid = uid
            /\ \A j \in Rows(table) : table[j].mediaitem_uid = uid => i <= j
    ELSE 0

\* get_user_mediaitem_by(filename=filename) is truthy
mediaitem_by_filename(table, filename) ==
    \E i \in Rows(table) : table[i].filename = filename

\* the rows of the album table that belong to the user of the crawl: the table
\* is shared by all users, where(user_id == user_id) selects these
UserAlbums(table) == {i \in Rows(table) : table[i].own}

\* get_user_album_by(album_uid=uid): row id of the first match, 0 if none
album_by_uid(table, uid) ==
    IF \E i \in UserAlbums(table) : table[i].album_uid = uid
    THEN CHOOSE i \in UserAlbums(table) :
            /\ table[i].album_uid = uid
            /\ \A j \in UserAlbums(table) : table[j].album_uid = uid => i <= j
    ELSE 0

\* get_user_album_by(id=id): None or Some(row id)
get_user_album_by(table, id) == IF id \in UserAlbums(table) THEN Some(id) ELSE None

\* the row with the largest id above id
album_last_after(table, id) ==
    LET above == {i \in UserAlbums(table) : i > id}
    IN  IF above # {} THEN Some(CHOOSE i \in above : \A j \in above : j <= i) ELSE None

\* get_user_album_after(id=id): the row with the smallest id above id
get_user_album_after(table, id) ==
    LET above == {i \in UserAlbums(table) : i > id}
    IN  IF above # {} THEN Some(CHOOSE i \in above : \A j \in above : i <= j) ELSE None

\* get_albumitem_by(album_uid=, mediaitem_uid=): row id of the first match, 0 if none
albumitem_by(table, album_uid, mediaitem_uid) ==
    IF \E i \in Rows(table) :
            table[i].album_uid = album_uid /\ table[i].mediaitem_uid = mediaitem_uid
    THEN CHOOSE i \in Rows(table) :
            /\ table[i].album_uid = album_uid /\ table[i].mediaitem_uid = mediaitem_uid
            /\ \A j \in Rows(table) :
                  (table[j].album_uid = album_uid /\ table[j].mediaitem_uid = mediaitem_uid)
                      => i <= j
    ELSE 0

----------------------------------------------------------------------------
(* GPhotosBackup.generate_filename *)

IsExtension(tok) == tok \in {".jpg", ".mp4"}

\* item['filename'].rsplit('.', 1), '-i' appended to the first part, joined again
with_suffix(filename, i) ==
    LET dots == {p \in 1..Len(filename) : IsExtension(filename[p])}
        sfx  == <<"-", ToString(i)>>
    IN  IF dots = {} THEN filename \o sfx
        ELSE LET p == CHOOSE q \in dots : \A r \in dots : r <= q
             IN  SubSeq(filename, 1, p - 1) \o sfx \o SubSeq(filename, p, Len(filename))

\* creation_time.split('-'): year/month, or 'other'
folder_of(item) ==
    IF Len(item.creationTime) > 1
    THEN <<item.creationTime[1], "/", item.creationTime[2]>>
    ELSE <<"other">>

\* the condition of the while loop: the name is taken on disk or in the table
name_taken(dsk, table, folder, filename) ==
    \/ join(folder, filename) \in dsk
    \/ mediaitem_by_filename(table, filename)

RECURSIVE free_name(_, _, _, _, _, _)
free_name(dsk, table, folder, original, filename, i) ==
    IF name_taken(dsk, table, folder, filename)
    THEN free_name(dsk, table, folder, original, with_suffix(original, i), i + 1)
    ELSE filename

generate_filename(dsk, table, item) ==
    join(folder_of(item),
         free_name(dsk, table, folder_of(item), item.filename, item.filename, 2))

----------------------------------------------------------------------------
(* GPhotosBackup.set_mediaitem *)

item_type_of(item) == item.mimeType[1]

\* filename + ('.jpg' if item_type == 'video' else '')
thumbnail_of(filename, item_type) ==
    filename \o (IF item_type = "video" THEN <<".jpg">> ELSE <<>>)

\* GPhotosBackup.file_exists
file_exists(dsk, filename) == filename \in dsk

\* a status that looks at no file
status_without_files(dsk, filename, thumbnail) == ITEM_AND_THUMBNAIL

\* a status that looks at the byte file only
status_of_item_file(dsk, filename, thumbnail) ==
    IF ~file_exists(dsk, filename) THEN ITEM_AND_THUMBNAIL ELSE ALREADY_DOWNLOADED

\* the status of an existing record that has a filename (lines 155-168)
status_of_files(dsk, filename, thumbnail) ==
    IF ~file_exists(dsk, filename) THEN ITEM_AND_THUMBNAIL
    ELSE IF ~file_exists(dsk, join(THUMBNAILS_FOLDER, thumbnail)) THEN THUMBNAIL_ONLY
    ELSE ALREADY_DOWNLOADED

new_download_info(item) ==
    [id |-> 0, mediaitem_uid |-> item.id, creation_time |-> item.creationTime,
     item_type |-> item_type_of(item), filename |-> <<>>,
     original_filename |-> item.filename, thumbnail |-> <<>>,
     download_status |-> ITEM_AND_THUMBNAIL]

\* every item is taken as ready
not_ready_ignored(item) == FALSE

\* the video of the item is not ready (lines 104-108)
not_ready(item) == item_type_of(item) = "video" /\ item.status # "READY"

\* a set_mediaitem that names the record of a known item anew
set_mediaitem_renaming(table, dsk, cycle, item) ==
    LET row  == mediaitem_by_uid(table, item.id)
        info == new_download_info(item)
        type == item_type_of(item)
    IN  IF not_ready(item)
        THEN [table |-> table, info |-> [info EXCEPT !.download_status = NOT_READY]]
        ELSE LET filename  == generate_filename(dsk, table, item)
                 thumbnail == thumbnail_of(filename, type)
             IN  IF row = 0
                 THEN [table |-> Append(table,
                            [mediaitem_uid |-> item.id, type |-> type,
                             original_filename |-> item.filename, filename |-> filename,
                             thumbnail |-> thumbnail, last_seen |-> cycle]),
                       info |-> [info EXCEPT !.id = Len(table) + 1, !.filename = filename,
                                             !.thumbnail = thumbnail]]
                 ELSE [table |-> [table EXCEPT ![row].filename = filename,
                                               ![row].thumbnail = thumbnail,
                                               ![row].last_seen = cycle],
                       info |-> [info EXCEPT !.id = row, !.filename = filename,
                                             !.thumbnail = thumbnail]]

\* a set_mediaitem that inserts a record without its names and leaves the
\* naming to the next classification
set_mediaitem_unnamed(table, dsk, cycle, item) ==
    LET row  == mediaitem_by_uid(table, item.id)
        info == new_download_info(item)
        type == item_type_of(item)
    IN  IF not_ready(item)
        THEN [table |-> table, info |-> [info EXCEPT !.download_status = NOT_READY]]
        ELSE IF row = 0
        THEN [table |-> Append(table,
                        [mediaitem_uid |-> item.id, type |-> type,
                         original_filename |-> item.filename, filename |-> <<>>,
                         thumbnail |-> <<>>, last_seen |-> cycle]),
              info |-> [info EXCEPT !.id = Len(table) + 1,
                                    !.download_status = ALREADY_DOWNLOADED]]
        ELSE LET filename  == IF table[row].filename = <<>>
                              THEN generate_filename(dsk, table, item)
                              ELSE table[row].filename
                 thumbnail == thumbnail_of(filename, type)
             IN  [table |-> [table EXCEPT ![row].filename = filename,
                                          ![row].thumbnail = thumbnail,
                                          ![row].last_seen = cycle],
                  info |-> [info EXCEPT !.id = row, !.filename = filename,
                                        !.thumbnail = thumbnail,
                                        !.download_status =
                                            status_of_files(dsk, filename, thumbnail)]]

\* a set_mediaitem that inserts a record without looking for one
set_mediaitem_inserting(table, dsk, cycle, item) ==
    LET info == new_download_info(item)
        type == item_type_of(item)
    IN  IF not_ready(item)
        THEN [table |-> table, info |-> [info EXCEPT !.download_status = NOT_READY]]
        ELSE LET filename  == generate_filename(dsk, table, item)
                 thumbnail == thumbnail_of(filename, type)
             IN  [table |-> Append(table,
                        [mediaitem_uid |-> item.id, type |-> type,
                         original_filename |-> item.filename, filename |-> filename,
                         thumbnail |-> thumbnail, last_seen |-> cycle]),
                  info |-> [info EXCEPT !.id = Len(table) + 1, !.filename = filename,
                                        !.thumbnail = thumbnail]]

\* result: [table |-> the mediaitems table afterwards, info |-> the DownloadInfo]
set_mediaitem(table, dsk, cycle, item) ==
    LET row  == mediaitem_by_uid(table, item.id)
        info == new_download_info(item)
        type == item_type_of(item)
    IN  IF not_ready(item)
        THEN [table |-> table, info |-> [info EXCEPT !.download_status = NOT_READY]]
        ELSE IF row = 0
        THEN LET filename  == generate_filename(dsk, table, item)
                 thumbnail == thumbnail_of(filename, type)
             IN  [table |-> Append(table,
                        [mediaitem_uid |-> item.id, type |-> type,
                         original_filename |-> item.filename, filename |-> filename,
                         thumbnail |-> thumbnail, last_seen |-> cycle]),
                  info |-> [info EXCEPT !.id = Len(table) + 1, !.filename = filename,
                                        !.thumbnail = thumbnail]]
        ELSE IF table[row].filename = <<>>
        THEN LET filename  == generate_filename(dsk, table, item)
                 thumbnail == thumbnail_of(filename, type)
             IN  [table |-> [table EXCEPT ![row].filename = filename,
                                          ![row].thumbnail = thumbnail,
                                          ![row].last_seen = cycle],
                  info |-> [info EXCEPT !.id = row, !.filename = filename,
                                        !.thumbnail = thumbnail]]
        ELSE LET thumbnail == IF table[row].thumbnail = <<>>
                              THEN thumbnail_of(table[row].filename, type)
                              ELSE table[row].thumbnail
             IN  [table |-> [table EXCEPT ![row].thumbnail = thumbnail,
                                          ![row].last_seen = cycle],
                  info |-> [info EXCEPT !.id = row, !.filename = table[row].filename,
                                        !.thumbnail = thumbnail,
                                        !.download_status =
                                            status_of_files(dsk, table[row].filename,
                                                            thumbnail)]]

----------------------------------------------------------------------------
(* The remote library *)

Photo(id, name, month) ==
    [id |-> id, filename |-> <<name, ".jpg">>, creationTime |-> <<"2020", month, "15">>,
     mimeType |-> <<"image", "/", "jpeg">>, status |-> "READY"]

Video(id, name, month, status) ==
    [id |-> id, filename |-> <<name, ".mp4">>, creationTime |-> <<"2020", month, "15">>,
     mimeType |-> <<"video", "/", "mp4">>, status |-> status]

\* answers of a download: an HTTP status, or 0 for a transport failure
TRANSPORT == 0
Answers == {200, 404, 429, 500, TRANSPORT}

\* a continuation token names the collection and the page it continues with
Token(coll, page) == <<coll, page>>

\* the page a listing call answers; page_token is None or a token
page_number(page_token) == IF page_token = None THEN 1 ELSE page_token[2]

\* the remote refuses a token of another collection
token_matches(coll, page_token) == page_token = None \/ page_token[1] = coll

\* the answer of a listing call: an empty collection field is left out
listing(pages, coll, page_token) ==
    LET n == page_number(page_token)
    IN  IF n > Len(pages)
        THEN [has_items |-> FALSE, items |-> <<>>, nextPageToken |-> None]
        ELSE [has_items |-> pages[n] # <<>>, items |-> pages[n],
              nextPageToken |-> IF n < Len(pages)
                                THEN Token(coll, n + 1)
                                ELSE None]

----------------------------------------------------------------------------
(* GPhotosBackup.download_mediaitems_from_next_page, lines 250-264 *)

\* a membership row is added at every listing
set_albumitem_adding(table, album_uid, mediaitem_uid, cycle) ==
    Append(table, [album_uid |-> album_uid, mediaitem_uid |-> mediaitem_uid,
                   last_seen |-> cycle])

\* lines 254-263: the membership row of (album, item) is updated or added
set_albumitem(table, album_uid, mediaitem_uid, cycle) ==
    LET row == albumitem_by(table, album_uid, mediaitem_uid)
    IN  IF row # 0 THEN [table EXCEPT ![row].last_seen = cycle]
        ELSE Append(table, [album_uid |-> album_uid, mediaitem_uid |-> mediaitem_uid,
                            last_seen |-> cycle])

\* the for loop of lines 252-264 over items[i..]; album_uid is None or Some(uid)
RECURSIVE classify_page(_, _, _, _, _, _, _, _)
classify_page(mtable, atable, infos, dsk, cycle, items, album_uid, i) ==
    IF i > Len(items)
    THEN [mediaitems |-> mtable, albumitems |-> atable, files_to_download |-> infos]
    ELSE LET r == set_mediaitem(mtable, dsk, cycle, items[i])
         IN  classify_page(r.table,
                           IF album_uid = None THEN atable
                           ELSE set_albumitem(atable, album_uid[1],
                                              r.info.mediaitem_uid, cycle),
                           Append(infos, r.info), dsk, cycle, items, album_uid, i + 1)

----------------------------------------------------------------------------
(* GPhotosBackup.download_albums_from_next_page, lines 301-317 *)

RECURSIVE save_albums(_, _, _, _, _)
save_albums(table, lines, cycle, uids, i) ==
    IF i > Len(uids) THEN [albums |-> table, lines |-> lines]
    ELSE LET row == album_by_uid(table, uids[i])
         IN  IF row = 0
             THEN save_albums(Append(table, [album_uid |-> uids[i], own |-> TRUE,
                                             last_seen |-> cycle]),
                              Append(lines, [who |-> <<uids[i]>>, msg |-> "album added"]),
                              cycle, uids, i + 1)
             ELSE save_albums([table EXCEPT ![row].last_seen = cycle],
                              Append(lines, [who |-> <<uids[i]>>, msg |-> "album updated"]),
                              cycle, uids, i + 1)

----------------------------------------------------------------------------
(* utils.download_file and GPhotosBackup.handle_mediaitem *)

\* utils.convert_iso_to_timestamp raises on a time that is not ISO
filetime_raises(creation_time) == creation_time # <<>> /\ Len(creation_time) # 3

\* a download that removes the destination file after every failure
download_file_cleaning(dsk, part, filename, creation_time, answer) ==
    IF answer = 200 /\ creation_time # <<>>
    THEN [status |-> 200, disk |-> dsk \cup {filename}, partial |-> part \ {filename}]
    ELSE [status |-> IF answer = 200 THEN TRANSPORT ELSE answer,
          disk |-> dsk \ {filename}, partial |-> part \ {filename}]

\* a download that leaves what it wrote when the transfer breaks
download_file_keeping(dsk, part, filename, creation_time, answer) ==
    IF answer = 200 /\ creation_time # <<>>
    THEN [status |-> 200, disk |-> dsk \cup {filename}, partial |-> part \ {filename}]
    ELSE IF answer = TRANSPORT
    THEN [status |-> TRANSPORT, disk |-> dsk \cup {filename},
          partial |-> part \cup {filename}]
    ELSE IF answer = 200
    THEN [status |-> TRANSPORT, disk |-> dsk \ {filename}, partial |-> part \ {filename}]
    ELSE [status |-> answer, disk |-> dsk, partial |-> part]

\* utils.download_file: the status it returns (0: it raised), the disk and its
\* incompletely written files afterwards.
\* A status that raise_for_status rejects returns before the file is opened.
\* A transfer that breaks leaves a file opened for writing and part of the
\* bytes in it, os.utime raises on filetime None after the copy: both are
\* inside the try block, whose handler removes the file when it exists.
download_file(dsk, part, filename, creation_time, answer) ==
    IF answer = 200 /\ creation_time # <<>>
    THEN [status |-> 200, disk |-> dsk \cup {filename}, partial |-> part \ {filename}]
    ELSE IF answer \in {200, TRANSPORT}
    THEN [status |-> TRANSPORT, disk |-> dsk \ {filename}, partial |-> part \ {filename}]
    ELSE [status |-> answer, disk |-> dsk, partial |-> part]

Line(info, msg) == <<[who |-> info.original_filename, msg |-> msg]>>

\* lines 209-221: the thumbnail download
\* result: [task, disk, partial, lines, fatal]
handle_thumbnail(dsk, part, info, answer) ==
    LET r == download_file(dsk, part, join(THUMBNAILS_FOLDER, info.thumbnail),
                           info.creation_time, answer)
    IN  IF r.status # 200
        THEN [task |-> "failed", disk |-> r.disk, partial |-> r.partial, lines |-> <<>>,
              fatal |-> IF r.status = TRANSPORT THEN "transport" ELSE ToString(r.status)]
        ELSE [task |-> "done", disk |-> r.disk, partial |-> r.partial,
              lines |-> IF info.download_status = THUMBNAIL_ONLY
                        THEN Line(info, "thumbnail downloaded") ELSE <<>>,
              fatal |-> ""]

\* lines 184-207: the download of the item's bytes
handle_item(dsk, part, info, answer) ==
    LET r == download_file(dsk, part, info.filename, info.creation_time, answer)
    IN  IF r.status = 404
        THEN [task |-> "skipped", disk |-> r.disk, partial |-> r.partial,
              lines |-> Line(info, "not available"), fatal |-> ""]
        ELSE IF r.status = 429
        THEN [task |-> "failed", disk |-> r.disk, partial |-> r.partial,
              lines |-> Line(info, "rate limit"), fatal |-> "429"]
        ELSE IF r.status # 200
        THEN [task |-> "failed", disk |-> r.disk, partial |-> r.partial, lines |-> <<>>,
              fatal |-> IF r.status = TRANSPORT THEN "transport" ELSE ToString(r.status)]
        ELSE [task |-> "thumb", disk |-> r.disk, partial |-> r.partial,
              lines |-> Line(info, "file downloaded"), fatal |-> ""]

\* one step of a handle_mediaitem call: st is "start" or "thumb"
handle_mediaitem(dsk, part, info, st, answer) ==
    IF st = "thumb" THEN handle_thumbnail(dsk, part, info, answer)
    ELSE IF info.download_status = NOT_READY
    THEN [task |-> "done", disk |-> dsk, partial |-> part,
          lines |-> Line(info, "not ready"), fatal |-> ""]
    ELSE IF info.download_status = ALREADY_DOWNLOADED
    THEN [task |-> "done", disk |-> dsk, partial |-> part,
          lines |-> Line(info, "aready downloaded"), fatal |-> ""]
    ELSE IF filetime_raises(info.creation_time)
    THEN [task |-> "failed", disk |-> dsk, partial |-> part, lines |-> <<>>,
          fatal |-> "filetime"]
    ELSE IF info.download_status = ITEM_AND_THUMBNAIL
    THEN handle_item(dsk, part, info, answer)
    ELSE handle_thumbnail(dsk, part, info, answer)

----------------------------------------------------------------------------
(* Observations: the listing calls of the traversal in progress *)

Call(stage, album_uid, page_token) ==
    [stage |-> stage, album |-> album_uid, token |-> page_token]

persisted_cycle == get_user_option(options, "current-cycle", 0)

Running(c) == pc[c] \notin {"idle", "done", "dead"}

\* another crawl loop is running beside the one of slot c
Racing(c) == \E d \in Slots \ {c} : Running(d)

\* the listing calls are followed where requests are served one at a time
Followed == Cardinality(slots) = 1

\* the traversal in progress is no longer followed: a page of it was aborted
Dirty(t) ==
    IF Followed THEN [t EXCEPT !.calls = <<>>, !.clean = FALSE, !.exits = 0] ELSE t

\* watchdog exits counted within one traversal
MaxExits == 2

\* a watchdog exit in the traversal in progress is noted
trace_exit ==
    IF Followed /\ trace.clean /\ ~trace.complete /\ trace.calls # <<>>
    THEN [trace EXCEPT !.exits = IF @ < MaxExits THEN @ + 1 ELSE @]
    ELSE trace

\* a listing call is noted; the first call after a complete traversal begins
\* the next one
trace_call(c, call) ==
    IF ~Followed THEN trace
    ELSE LET t == IF trace.complete
                  THEN [trace EXCEPT !.calls = <<call>>, !.clean = TRUE,
                                     !.complete = FALSE, !.cycle0 = persisted_cycle,
                                     !.exits = 0]
                  ELSE IF trace.clean THEN [trace EXCEPT !.calls = Append(@, call)]
                  ELSE trace
         IN  IF t.aborted # None /\ t.replay = None
             THEN [t EXCEPT !.replay = Some(call)]
             ELSE t

\* the page operation of slot c is cut short after its listing call: the call
\* is noted, to be compared with the next listing call
trace_abort(c) ==
    IF ~Followed THEN trace
    ELSE [Dirty(trace) EXCEPT
             !.aborted = Some(Call(backup_stage[c],
                                   IF album[c] = None THEN None
                                   ELSE Some(albums[album[c][1]].album_uid),
                                   get_user_option(options, "next-page-token", None))),
             !.replay = None]

\* nothing is noted of a loop that resumes nothing
NoResume == [from |-> None, first |-> None]

NoResponse == [has_items |-> FALSE, items |-> <<>>, nextPageToken |-> None]

----------------------------------------------------------------------------
(* Initial state: an empty database and storage directory, no request *)

\* stage is the 'backup-stage' row the database holds when the process starts
InitProcess(lib, sl, stage, args) ==
    /\ options = [k \in OptionKeys |-> IF k = "backup-stage" THEN stage
                                       ELSE IF k = "backup-stage-args" THEN args
                                       ELSE None]
    /\ albumitems = <<>>
    /\ global_crawler_lock = FALSE
    /\ remote = lib
    /\ slots = sl
    /\ gen = [c \in Slots |-> "new"]
    /\ current_cycle = [c \in Slots |-> 0]
    /\ crawling_termination_time = [c \in Slots |-> None]
    /\ unpolled = [c \in Slots |-> 0]
    /\ output = [c \in Slots |-> <<>>]
    /\ log_queue = [c \in Slots |-> <<>>]
    /\ pc = [c \in Slots |-> "idle"]
    /\ backup_stage = [c \in Slots |-> MEDIA_ITEM]
    /\ album = [c \in Slots |-> None]
    /\ response = [c \in Slots |-> NoResponse]
    /\ files_to_download = [c \in Slots |-> <<>>]
    /\ task = [c \in Slots |-> <<>>]
    /\ fatal = [c \in Slots |-> ""]
    /\ trace = [calls |-> <<>>, clean |-> TRUE, complete |-> FALSE, cycle0 |-> 0,
                last |-> None, passed |-> {}, fetched |-> {},
                aborted |-> None, replay |-> None, exits |-> 0]
    /\ resume = [c \in Slots |-> NoResume]

\* no record of a media item, an empty storage directory
InitCrawl(lib, sl, stage) ==
    /\ InitProcess(lib, sl, stage, None)
    /\ mediaitems = <<>>
    /\ albums = <<>>
    /\ disk = {}
    /\ partial = {}

\* the crawl reads and writes its options through the variable options; no call
\* on the stored rows is followed
InitStage(lib, sl, stage) ==
    /\ InitCrawl(lib, sl, stage)
    /\ option_table = {}
    /\ returned = NoCall

InitWith(lib, sl) == InitStage(lib, sl, None)

----------------------------------------------------------------------------
(* main.py run(): a request builds a GPhotosBackup object (__init__) *)

Request(c) ==
    /\ gen[c] \in {"new", "closed"}
    /\ ~Running(c)
    /\ \A d \in slots : d < c => gen[d] # "new"      \* the lowest free slot is taken
    /\ gen' = [gen EXCEPT ![c] = "check"]
    /\ current_cycle' = [current_cycle EXCEPT ![c] = persisted_cycle]
    /\ crawling_termination_time' = [crawling_termination_time EXCEPT ![c] = None]
    /\ unpolled' = [unpolled EXCEPT ![c] = 0]
    /\ output' = [output EXCEPT ![c] = <<>>]
    /\ log_queue' = [log_queue EXCEPT ![c] = <<>>]
    /\ pc' = [pc EXCEPT ![c] = "idle"]
    /\ backup_stage' = [backup_stage EXCEPT ![c] = MEDIA_ITEM]
    /\ album' = [album EXCEPT ![c] = None]
    /\ response' = [response EXCEPT ![c] = NoResponse]
    /\ files_to_download' = [files_to_download EXCEPT ![c] = <<>>]
    /\ task' = [task EXCEPT ![c] = <<>>]
    /\ fatal' = [fatal EXCEPT ![c] = ""]
    /\ resume' = [resume EXCEPT ![c] = NoResume]
    /\ UNCHANGED <<durable, global_crawler_lock, remote, slots, database, trace>>

----------------------------------------------------------------------------
(* GPhotosBackup.run *)

\* lines 396-398: the lease is tested; held: one "waiting" line, then sleep
RunCheck(c) ==
    /\ gen[c] \in {"check", "waiting"}
    /\ gen' = [gen EXCEPT ![c] = IF global_crawler_lock THEN "waiting" ELSE "acquired"]
    /\ UNCHANGED <<durable, global_crawler_lock, remote, slots, database, current_cycle,
                   crawling_termination_time, unpolled, output, log_queue, thread,
                   observe>>

\* lines 399-401: the deadline is set, the crawl thread started, one line yielded
RunStart(c) ==
    /\ gen[c] = "acquired"
    /\ crawling_termination_time' =
           [crawling_termination_time EXCEPT ![c] = Some(LeaseTicks)]
    /\ unpolled' = [unpolled EXCEPT ![c] = 0]
    /\ UNCHANGED output
    /\ pc' = [pc EXCEPT ![c] = "started"]
    /\ gen' = [gen EXCEPT ![c] = "yielded"]
    /\ UNCHANGED <<durable, global_crawler_lock, remote, slots, database, current_cycle, log_queue,
                   backup_stage, album, response, files_to_download, task,
                   fatal, trace, resume>>

\* a loop that puts the line taken last in front of the others
RECURSIVE drain_reversing(_, _)
drain_reversing(queue, out) ==
    IF queue = <<>> THEN out ELSE drain_reversing(Tail(queue), <<Head(queue)>> \o out)

\* lines 404-409: while the queue is not empty its oldest line is taken and
\* appended to the output
RECURSIVE drain(_, _)
drain(queue, out) ==
    IF queue = <<>> THEN out ELSE drain(Tail(queue), Append(out, Head(queue)))

\* a pass of the polling loop that leaves the deadline as it is
RunPollIdle(c) ==
    /\ gen[c] \in {"polling", "yielded"}
    /\ crawling_termination_time' =
           [crawling_termination_time EXCEPT ![c] = IF Running(c) THEN @ ELSE None]
    /\ unpolled' = [unpolled EXCEPT ![c] = 0]
    /\ output' = [output EXCEPT ![c] = IF Followed THEN drain(log_queue[c], <<>>) ELSE <<>>]
    /\ gen' = [gen EXCEPT ![c] = IF log_queue[c] # <<>> THEN "yielded" ELSE "polling"]
    /\ log_queue' = [log_queue EXCEPT ![c] = <<>>]
    /\ UNCHANGED <<durable, global_crawler_lock, remote, slots, database, current_cycle,
                   thread, observe>>

\* lines 402-412: one pass of the polling loop. The deadline of an object whose
\* thread has ended is written too, but never read again: the model drops it.
RunPoll(c) ==
    /\ gen[c] \in {"polling", "yielded"}
    /\ crawling_termination_time' =
           [crawling_termination_time EXCEPT ![c] =
               IF Running(c) THEN Some(LeaseTicks) ELSE None]
    /\ unpolled' = [unpolled EXCEPT ![c] = 0]
    /\ output' = [output EXCEPT ![c] = IF Followed THEN drain(log_queue[c], <<>>) ELSE <<>>]
    /\ gen' = [gen EXCEPT ![c] = IF log_queue[c] # <<>> THEN "yielded" ELSE "polling"]
    /\ log_queue' = [log_queue EXCEPT ![c] = <<>>]
    /\ UNCHANGED <<durable, global_crawler_lock, remote, slots, database, current_cycle,
                   thread, observe>>

\* the consumer stops iterating the generator: it is closed at a yield
Disconnect(c) ==
    /\ gen[c] \in {"waiting", "yielded"}
    /\ gen' = [gen EXCEPT ![c] = "closed"]
    /\ current_cycle' = [current_cycle EXCEPT ![c] = IF Running(c) THEN @ ELSE 0]
    /\ crawling_termination_time' =
           [crawling_termination_time EXCEPT ![c] = IF Running(c) THEN @ ELSE None]
    /\ unpolled' = [unpolled EXCEPT ![c] = IF Running(c) THEN @ ELSE 0]
    /\ output' = [output EXCEPT ![c] = <<>>]
    /\ log_queue' = [log_queue EXCEPT ![c] = IF Running(c) THEN @ ELSE <<>>]
    /\ UNCHANGED <<durable, global_crawler_lock, remote, slots, database, thread, observe>>

\* a deadline that a running loop will read and that has not lapsed yet
Ticking(c) == /\ Running(c)
              /\ crawling_termination_time[c] # None
              /\ crawling_termination_time[c][1] >= 0

\* the clock advances by one tick: every deadline that is still read comes one
\* tick nearer
Tick ==
    /\ \E c \in slots : Ticking(c)
    /\ crawling_termination_time' =
           [c \in Slots |->
               IF Ticking(c)
               THEN Some(crawling_termination_time[c][1] - 1)
               ELSE crawling_termination_time[c]]
    /\ unpolled' = [c \in Slots |-> IF Ticking(c) THEN unpolled[c] + 1 ELSE unpolled[c]]
    /\ UNCHANGED output
    /\ UNCHANGED <<durable, global_crawler_lock, remote, slots, database, gen, current_cycle,
                   log_queue, thread, observe>>

----------------------------------------------------------------------------
(* GPhotosBackup.crawl *)

\* The thread ends: its locals are gone and nothing reads the deadline any more;
\* with the generator closed nothing refers to the object, so its fields are gone.
ThreadEnds(c, how) ==
    /\ pc' = [pc EXCEPT ![c] = how]
    /\ backup_stage' = [backup_stage EXCEPT ![c] = MEDIA_ITEM]
    /\ album' = [album EXCEPT ![c] = None]
    /\ response' = [response EXCEPT ![c] = NoResponse]
    /\ files_to_download' = [files_to_download EXCEPT ![c] = <<>>]
    /\ task' = [task EXCEPT ![c] = <<>>]
    /\ resume' = [resume EXCEPT ![c] = NoResume]
    /\ current_cycle' = [current_cycle EXCEPT ![c] = IF gen[c] = "closed" THEN 0 ELSE @]
    /\ crawling_termination_time' = [crawling_termination_time EXCEPT ![c] = None]
    /\ unpolled' = [unpolled EXCEPT ![c] = 0]
    /\ UNCHANGED output
    /\ log_queue' = [log_queue EXCEPT ![c] = IF gen[c] = "closed" THEN <<>> ELSE @]

\* the thread ends on an exception: nothing of crawl() runs after the raise
Raise(c, why) ==
    /\ ThreadEnds(c, "dead")
    /\ fatal' = [fatal EXCEPT ![c] = why]
    /\ trace' = Dirty(trace)

\* BackupStage(value) of lines 332-336: ValueError falls back to MEDIA_ITEM
stage_of(value) == IF value \in BackupStageValues THEN value ELSE MEDIA_ITEM

\* a crawl() that begins every run at stage MEDIA_ITEM
CrawlBeginAfresh(c) ==
    /\ pc[c] = "started"
    /\ global_crawler_lock' = TRUE
    /\ backup_stage' = [backup_stage EXCEPT ![c] = MEDIA_ITEM]
    /\ pc' = [pc EXCEPT ![c] = "loop"]
    /\ resume' = [resume EXCEPT ![c] = [from |-> trace.last, first |-> None]]
    /\ UNCHANGED <<durable, remote, slots, database, object, album, response,
                   files_to_download, task, fatal, trace>>

\* lines 330-336: the lease flag is set and the persisted stage read
CrawlBegin(c) ==
    /\ pc[c] = "started"
    /\ global_crawler_lock' = TRUE
    /\ backup_stage' = [backup_stage EXCEPT ![c] =
           stage_of(get_user_option(options, "backup-stage", MEDIA_ITEM))]
    /\ pc' = [pc EXCEPT ![c] = "loop"]
    /\ resume' = [resume EXCEPT ![c] = [from |-> trace.last, first |-> None]]
    /\ UNCHANGED <<durable, remote, slots, database, object, album, response,
                   files_to_download, task, fatal, trace>>

lapsed(c) == /\ crawling_termination_time[c] # None
             /\ crawling_termination_time[c][1] < 0

\* a watchdog exit that forgets the page reached
CrawlWatchdogForgetting(c) ==
    /\ pc[c] = "loop"
    /\ lapsed(c)
    /\ global_crawler_lock' = FALSE
    /\ ThreadEnds(c, "done")
    /\ options' = set_user_option(options, "next-page-token", None)
    /\ trace' = trace_exit
    /\ UNCHANGED <<mediaitems, albums, albumitems, storage, remote, slots, database, gen,
                   fatal>>

\* lines 338-340 and 391-392: past the deadline the loop breaks, the flag is cleared
CrawlWatchdog(c) ==
    /\ pc[c] = "loop"
    /\ lapsed(c)
    /\ global_crawler_lock' = FALSE
    /\ ThreadEnds(c, "done")
    /\ trace' = trace_exit
    /\ UNCHANGED <<durable, remote, slots, database, gen, fatal>>

\* the largest page a remote library of the model has
MaxPage == 2

RECURSIVE longest(_)
longest(pages) ==
    IF pages = <<>> THEN 0
    ELSE LET rest == longest(Tail(pages))
         IN  IF Len(Head(pages)) > rest THEN Len(Head(pages)) ELSE rest

\* the most lines one page operation puts on the progress queue
page_lines ==
    LET sizes == {longest(remote.media), longest(remote.albums)}
                 \cup {longest(remote.albumMedia[u]) : u \in DOMAIN remote.albumMedia}
    IN  CHOOSE n \in sizes : \A m \in sizes : m <= n

\* the model starts no page beyond its bounds, and none while two loops run
\* beside each other
WithinBounds(c) ==
    /\ ~Racing(c)
    /\ current_cycle[c] < MaxCycle
    /\ Len(log_queue[c]) + page_lines <= MaxQueue

\* a current album found by its id only
current_album_by_id(opts, table) ==
    get_user_album_by(table, get_user_option(opts, "backup-stage-args", 0))

\* lines 357-366: the current album of stage ALBUM_ITEM
current_album(opts, table) ==
    LET album_id == get_user_option(opts, "backup-stage-args", 0)
    IN  IF album_id = 0 THEN get_user_album_after(table, 0)
        ELSE IF get_user_album_by(table, album_id) # None
        THEN get_user_album_by(table, album_id)
        ELSE get_user_album_after(table, album_id)

\* lines 341-382: the branch of the stage is entered
CrawlLoop(c) ==
    /\ pc[c] = "loop"
    /\ ~lapsed(c)
    /\ WithinBounds(c)
    /\ CASE backup_stage[c] = MEDIA_ITEM ->
              /\ pc' = [pc EXCEPT ![c] = "list"]
              /\ album' = [album EXCEPT ![c] = None]
              /\ UNCHANGED <<backup_stage, response, files_to_download, task, fatal,
                             trace, resume, fields>>
         [] backup_stage[c] = ALBUM ->
              /\ pc' = [pc EXCEPT ![c] = "list_albums"]
              /\ UNCHANGED <<backup_stage, album, response, files_to_download, task,
                             fatal, trace, resume, fields>>
         [] backup_stage[c] = ALBUM_ITEM ->
              LET al == current_album(options, albums)
              IN  /\ album' = [album EXCEPT ![c] = al]
                  /\ pc' = [pc EXCEPT ![c] = IF al = None THEN "end1" ELSE "list"]
                  /\ backup_stage' = [backup_stage EXCEPT ![c] =
                                         IF al = None THEN END ELSE @]
                  /\ UNCHANGED <<response, files_to_download, task, fatal, trace,
                                 resume, fields>>
         [] OTHER -> Raise(c, "unknown stage")
    /\ UNCHANGED <<durable, global_crawler_lock, remote, slots, database, gen>>

----------------------------------------------------------------------------
(* GPhotosBackup.download_mediaitems_from_next_page *)

\* album=album.album_uid of line 368, None in stage MEDIA_ITEM
album_uid_of(c) == IF album[c] = None THEN None ELSE Some(albums[album[c][1]].album_uid)

\* the collection a listing call of slot c reads
collection_of(c) ==
    IF album[c] = None THEN remote.media ELSE remote.albumMedia[album_uid_of(c)[1]]

collection_name(c) == IF album[c] = None THEN MEDIA_ITEM ELSE album_uid_of(c)[1]

\* a listing call may fail in transport when the remote can
ListingOutcomes == IF TRANSPORT \in remote.answers THEN {"ok", "transport"} ELSE {"ok"}

\* the first listing call of a loop that resumes after a persisted page
NoteFirst(c, call) ==
    resume' = [resume EXCEPT ![c].first =
                  IF resume[c].from # None /\ @ = None THEN Some(call) ELSE @]

\* lines 229-249: the listing call with the persisted token, and the response check
ListMediaItems(c) ==
    /\ pc[c] = "list"
    /\ LET page_token == get_user_option(options, "next-page-token", None)
           call == Call(backup_stage[c], album_uid_of(c), page_token)
           r == listing(collection_of(c), collection_name(c), page_token)
       IN  \E outcome \in ListingOutcomes :
             IF outcome = "transport" \/ ~token_matches(collection_name(c), page_token)
             THEN Raise(c, "listing")
             ELSE IF ~r.has_items /\ r.nextPageToken = None
             THEN Raise(c, "invalid response")
             ELSE /\ response' = [response EXCEPT ![c] = r]
                  /\ pc' = [pc EXCEPT ![c] = IF r.has_items THEN "classify" ELSE "persist"]
                  /\ trace' = trace_call(c, call)
                  /\ NoteFirst(c, call)
                  /\ UNCHANGED <<backup_stage, album, files_to_download, task, fatal,
                                 fields>>
    /\ UNCHANGED <<durable, global_crawler_lock, remote, slots, database, gen>>

\* a page operation that tests the deadline again before it classifies
ClassifyChecking(c) ==
    /\ pc[c] = "classify"
    /\ IF lapsed(c)
       THEN /\ global_crawler_lock' = FALSE
            /\ ThreadEnds(c, "done")
            /\ UNCHANGED <<durable, gen, fatal, trace>>
       ELSE /\ LET r == classify_page(mediaitems, albumitems, <<>>, disk,
                                      current_cycle[c], response[c].items,
                                      album_uid_of(c), 1)
               IN  /\ mediaitems' = r.mediaitems
                   /\ albumitems' = r.albumitems
                   /\ files_to_download' =
                          [files_to_download EXCEPT ![c] = r.files_to_download]
                   /\ task' = [task EXCEPT ![c] =
                                  [i \in 1..Len(r.files_to_download) |-> "start"]]
            /\ pc' = [pc EXCEPT ![c] = "download"]
            /\ UNCHANGED <<options, albums, storage, global_crawler_lock, object,
                           backup_stage, album, response, observe>>
    /\ UNCHANGED <<remote, slots, database>>

\* lines 250-264: every item of the page is classified
Classify(c) ==
    /\ pc[c] = "classify"
    /\ LET r == classify_page(mediaitems, albumitems, <<>>, disk, current_cycle[c],
                              response[c].items, album_uid_of(c), 1)
       IN  /\ mediaitems' = r.mediaitems
           /\ albumitems' = r.albumitems
           /\ files_to_download' = [files_to_download EXCEPT ![c] = r.files_to_download]
           /\ task' = [task EXCEPT ![c] = [i \in 1..Len(r.files_to_download) |-> "start"]]
    /\ pc' = [pc EXCEPT ![c] = "download"]
    /\ UNCHANGED <<options, albums, storage, global_crawler_lock, remote, slots, database, object,
                   backup_stage, album, response, observe>>

\* ThreadPoolExecutor(max_workers=5)
MAX_WORKERS == 5

\* a call counted as over as soon as a worker took it
taken(st) == st # "start"

Finished(st) == st \in {"done", "skipped", "failed", "cancelled"}

\* executor.map raises at the first failed call in order and cancels the calls
\* after it that no worker has started
Cancellable(c, k) ==
    /\ task[c][k] = "start"
    /\ \E j \in 1..(k - 1) : /\ task[c][j] = "failed"
                             /\ \A i \in 1..(j - 1) : task[c][i] \in {"done", "skipped"}

\* lines 266-269: one step of the call handle_mediaitem(files_to_download[k])
HandleMediaitem(c, k) ==
    /\ pc[c] = "download"
    /\ k \in 1..Len(task[c])
    /\ task[c][k] \in {"start", "thumb"}
    /\ task[c][k] = "start" =>
           Cardinality({j \in 1..Len(task[c]) : task[c][j] = "thumb"}) < MAX_WORKERS
    /\ \E answer \in remote.answers \cup {-1} :
         IF answer = -1
         THEN /\ Cancellable(c, k)
              /\ task' = [task EXCEPT ![c][k] = "cancelled"]
              /\ UNCHANGED <<storage, log_queue, fatal>>
         ELSE LET r == handle_mediaitem(disk, partial, files_to_download[c][k],
                                        task[c][k], answer)
              IN  /\ task' = [task EXCEPT ![c][k] = r.task]
                  /\ disk' = r.disk
                  /\ partial' = r.partial
                  /\ log_queue' = [log_queue EXCEPT ![c] = @ \o r.lines]
                  /\ fatal' = [fatal EXCEPT ![c] =
                                  IF @ = "" /\ r.task = "failed" THEN r.fatal ELSE @]
    /\ UNCHANGED <<options, mediaitems, albums, albumitems, global_crawler_lock, remote,
                   slots, database, gen, current_cycle, crawling_termination_time, unpolled,
                   output, pc,
                   backup_stage,
                   album, response, files_to_download, trace, resume>>

\* a pass over a page ended without a failed call: the items it went over, and
\* those of them it left with both files fetched, are noted
trace_pass(c) ==
    LET infos == files_to_download[c]
        over  == {infos[k].mediaitem_uid : k \in 1..Len(infos)}
        saved == {infos[k].mediaitem_uid :
                     k \in {j \in 1..Len(infos) :
                               /\ task[c][j] = "done"
                               /\ infos[j].download_status # NOT_READY}}
    IN  IF ~Followed THEN trace
        ELSE [trace EXCEPT !.passed = @ \cup over, !.fetched = @ \cup saved]

\* a join that goes on to persist the page whatever its calls did
JoinIgnoring(c) ==
    /\ pc[c] = "download"
    /\ \A k \in 1..Len(task[c]) : Finished(task[c][k])
    /\ pc' = [pc EXCEPT ![c] = "persist"]
    /\ trace' = trace_pass(c)
    /\ UNCHANGED <<backup_stage, album, response, files_to_download, task, fatal,
                   resume, fields>>
    /\ UNCHANGED <<durable, global_crawler_lock, remote, slots, database, gen>>

\* lines 266-273: the pool is joined; a failed call ends the thread
Join(c) ==
    /\ pc[c] = "download"
    /\ \A k \in 1..Len(task[c]) : Finished(task[c][k])
    /\ IF \E k \in 1..Len(task[c]) : task[c][k] = "failed"
       THEN /\ ThreadEnds(c, "dead")
            /\ trace' = trace_abort(c)
            /\ UNCHANGED fatal
       ELSE /\ pc' = [pc EXCEPT ![c] = "persist"]
            /\ trace' = trace_pass(c)
            /\ UNCHANGED <<backup_stage, album, response, files_to_download, task, fatal,
                           resume, fields>>
    /\ UNCHANGED <<durable, global_crawler_lock, remote, slots, database, gen>>

\* a crawl() that leaves the stage after every page
after_page_leaving(stage, switch_stage) ==
    IF stage = MEDIA_ITEM THEN "to_album"
    ELSE IF stage = ALBUM THEN "first_album"
    ELSE "next_album"

\* where crawl() continues after a page operation returned switch_stage
after_page(stage, switch_stage) ==
    IF ~switch_stage THEN "loop"
    ELSE IF stage = MEDIA_ITEM THEN "to_album"
    ELSE IF stage = ALBUM THEN "first_album"
    ELSE "next_album"

\* lines 275-282 and 319-326: the continuation token is persisted or cleared
Persist(c) ==
    /\ pc[c] = "persist"
    /\ options' = set_user_option(options, "next-page-token",
                                  IF response[c].nextPageToken = None THEN None
                                  ELSE Some(response[c].nextPageToken))
    /\ pc' = [pc EXCEPT ![c] =
                 after_page(backup_stage[c], response[c].nextPageToken = None)]
    /\ trace' = IF ~Followed THEN trace
                 ELSE [trace EXCEPT !.last =
                          Some([stage |-> backup_stage[c], album |-> album_uid_of(c),
                                token |-> response[c].nextPageToken]),
                          !.aborted = None, !.replay = None]
    /\ resume' = [resume EXCEPT ![c] = NoResume]
    /\ response' = [response EXCEPT ![c] = NoResponse]
    /\ files_to_download' = [files_to_download EXCEPT ![c] = <<>>]
    /\ task' = [task EXCEPT ![c] = <<>>]
    /\ UNCHANGED <<mediaitems, albums, albumitems, storage, global_crawler_lock, remote,
                   slots, database, object, backup_stage, album, fatal>>

----------------------------------------------------------------------------
(* GPhotosBackup.download_albums_from_next_page *)

\* an album listing whose failure rewinds the stored stage
ListAlbumsRewinding(c) ==
    /\ pc[c] = "list_albums"
    /\ LET page_token == get_user_option(options, "next-page-token", None)
           call == Call(ALBUM, None, page_token)
           r == listing(remote.albums, ALBUM, page_token)
       IN  \E outcome \in ListingOutcomes :
             IF outcome = "transport" \/ ~token_matches(ALBUM, page_token)
             THEN /\ Raise(c, "listing")
                  /\ options' = set_user_option(options, "backup-stage", None)
             ELSE IF ~r.has_items
             THEN /\ Raise(c, "invalid response")
                  /\ UNCHANGED options
             ELSE /\ response' = [response EXCEPT ![c] = r]
                  /\ pc' = [pc EXCEPT ![c] = "save_albums"]
                  /\ trace' = trace_call(c, call)
                  /\ NoteFirst(c, call)
                  /\ UNCHANGED <<options, backup_stage, album, files_to_download, task,
                                 fatal, fields>>
    /\ UNCHANGED <<mediaitems, albums, albumitems, storage, global_crawler_lock, remote,
                   slots, database, gen>>

\* lines 289-300: the listing call with the persisted token, and the response check
ListAlbums(c) ==
    /\ pc[c] = "list_albums"
    /\ LET page_token == get_user_option(options, "next-page-token", None)
           call == Call(ALBUM, None, page_token)
           r == listing(remote.albums, ALBUM, page_token)
       IN  \E outcome \in ListingOutcomes :
             IF outcome = "transport" \/ ~token_matches(ALBUM, page_token)
             THEN Raise(c, "listing")
             ELSE IF ~r.has_items
             THEN Raise(c, "invalid response")
             ELSE /\ response' = [response EXCEPT ![c] = r]
                  /\ pc' = [pc EXCEPT ![c] = "save_albums"]
                  /\ trace' = trace_call(c, call)
                  /\ NoteFirst(c, call)
                  /\ UNCHANGED <<backup_stage, album, files_to_download, task, fatal,
                                 fields>>
    /\ UNCHANGED <<durable, global_crawler_lock, remote, slots, database, gen>>

\* lines 301-317: every album of the page is added or updated
SaveAlbums(c) ==
    /\ pc[c] = "save_albums"
    /\ LET r == save_albums(albums, <<>>, current_cycle[c], response[c].items, 1)
       IN  /\ albums' = r.albums
           /\ log_queue' = [log_queue EXCEPT ![c] = @ \o r.lines]
    /\ pc' = [pc EXCEPT ![c] = "persist"]
    /\ UNCHANGED <<options, mediaitems, albumitems, storage, global_crawler_lock, remote,
                   slots, database, gen, current_cycle, crawling_termination_time, unpolled,
                   output, backup_stage,
                   album, response, files_to_download, task, observe>>

----------------------------------------------------------------------------
(* GPhotosBackup.crawl: the stage transitions, one step per option write *)

\* lines 343-345
SwitchToAlbum(c) ==
    /\ pc[c] = "to_album"
    /\ backup_stage' = [backup_stage EXCEPT ![c] = ALBUM]
    /\ options' = set_user_option(options, "backup-stage", Some(ALBUM))
    /\ pc' = [pc EXCEPT ![c] = "loop"]
    /\ UNCHANGED <<mediaitems, albums, albumitems, storage, global_crawler_lock, remote,
                   slots, database, object, album, response, files_to_download, task, observe>>

\* lines 348-351 and 354-355
FirstAlbum(c) ==
    /\ pc[c] = "first_album"
    /\ LET al == get_user_album_after(albums, 0)
       IN  IF al # None
           THEN /\ options' = set_user_option(options, "backup-stage-args", al)
                /\ pc' = [pc EXCEPT ![c] = "to_albumitem"]
                /\ UNCHANGED backup_stage
           ELSE /\ backup_stage' = [backup_stage EXCEPT ![c] = END]
                /\ pc' = [pc EXCEPT ![c] = "end1"]
                /\ UNCHANGED options
    /\ UNCHANGED <<mediaitems, albums, albumitems, storage, global_crawler_lock, remote,
                   slots, database, object, album, response, files_to_download, task, observe>>

\* lines 352-353
ToAlbumItem(c) ==
    /\ pc[c] = "to_albumitem"
    /\ backup_stage' = [backup_stage EXCEPT ![c] = ALBUM_ITEM]
    /\ options' = set_user_option(options, "backup-stage", Some(ALBUM_ITEM))
    /\ pc' = [pc EXCEPT ![c] = "loop"]
    /\ UNCHANGED <<mediaitems, albums, albumitems, storage, global_crawler_lock, remote,
                   slots, database, object, album, response, files_to_download, task, observe>>

\* lines 370-378
NextAlbum(c) ==
    /\ pc[c] = "next_album"
    /\ LET al == get_user_album_after(albums, album[c][1])
       IN  IF al # None
           THEN /\ options' = set_user_option(options, "backup-stage-args", al)
                /\ pc' = [pc EXCEPT ![c] = "loop"]
                /\ UNCHANGED backup_stage
           ELSE /\ backup_stage' = [backup_stage EXCEPT ![c] = END]
                /\ pc' = [pc EXCEPT ![c] = "end1"]
                /\ UNCHANGED options
    /\ album' = [album EXCEPT ![c] = None]
    /\ UNCHANGED <<mediaitems, albums, albumitems, storage, global_crawler_lock, remote,
                   slots, database, object, response, files_to_download, task, observe>>

\* a crawl() that writes the stage END it has reached
End1WritingEnd(c) ==
    /\ pc[c] = "end1"
    /\ backup_stage' = [backup_stage EXCEPT ![c] = MEDIA_ITEM]
    /\ options' = set_user_option(options, "backup-stage", Some(END))
    /\ pc' = [pc EXCEPT ![c] = "end2"]
    /\ UNCHANGED <<mediaitems, albums, albumitems, storage, global_crawler_lock, remote,
                   slots, database, object, album, response, files_to_download, task, observe>>

\* lines 384-386
End1(c) ==
    /\ pc[c] = "end1"
    /\ backup_stage' = [backup_stage EXCEPT ![c] = MEDIA_ITEM]
    /\ options' = set_user_option(options, "backup-stage", Some(MEDIA_ITEM))
    /\ pc' = [pc EXCEPT ![c] = "end2"]
    /\ UNCHANGED <<mediaitems, albums, albumitems, storage, global_crawler_lock, remote,
                   slots, database, object, album, response, files_to_download, task, observe>>

\* line 387
End2(c) ==
    /\ pc[c] = "end2"
    /\ options' = set_user_option(options, "backup-stage-args", None)
    /\ pc' = [pc EXCEPT ![c] = "end3"]
    /\ UNCHANGED <<mediaitems, albums, albumitems, storage, global_crawler_lock, remote,
                   slots, database, object, backup_stage, album, response, files_to_download,
                   task, observe>>

\* lines 388-389
End3(c) ==
    /\ pc[c] = "end3"
    /\ current_cycle' = [current_cycle EXCEPT ![c] = @ + 1]
    /\ options' = set_user_option(options, "current-cycle", Some(current_cycle[c] + 1))
    /\ pc' = [pc EXCEPT ![c] = "loop"]
    /\ trace' = IF Followed THEN [trace EXCEPT !.complete = TRUE] ELSE trace
    /\ UNCHANGED <<mediaitems, albums, albumitems, storage, global_crawler_lock, remote,
                   slots, database, gen, crawling_termination_time, unpolled, output, log_queue,
                   backup_stage, album,
                   response, files_to_download, task, fatal, resume>>

----------------------------------------------------------------------------
(* The process is stopped and started again: only the durable state is kept *)

AtPageBoundary(c) == pc[c] \in {"idle", "started", "loop", "done", "dead"}

Restart ==
    /\ \E c \in slots : gen[c] # "new"
    /\ global_crawler_lock' = FALSE
    /\ gen' = [c \in Slots |-> "new"]
    /\ current_cycle' = [c \in Slots |-> 0]
    /\ crawling_termination_time' = [c \in Slots |-> None]
    /\ unpolled' = [c \in Slots |-> 0]
    /\ output' = [c \in Slots |-> <<>>]
    /\ log_queue' = [c \in Slots |-> <<>>]
    /\ pc' = [c \in Slots |-> "idle"]
    /\ backup_stage' = [c \in Slots |-> MEDIA_ITEM]
    /\ album' = [c \in Slots |-> None]
    /\ response' = [c \in Slots |-> NoResponse]
    /\ files_to_download' = [c \in Slots |-> <<>>]
    /\ task' = [c \in Slots |-> <<>>]
    /\ fatal' = [c \in Slots |-> ""]
    /\ resume' = [c \in Slots |-> NoResume]
    /\ trace' = IF \A c \in Slots : AtPageBoundary(c) THEN trace ELSE Dirty(trace)
    /\ UNCHANGED <<durable, remote, slots, database>>

----------------------------------------------------------------------------
(* Remote libraries *)

P1 == Photo("i1", "a", "01")
P2 == Photo("i2", "a", "01")
P3 == Photo("i3", "a", "01")
V4 == Video("i4", "b", "02", "PROCESSING")

\* one page of one item, one album holding it; downloads answer 200 or 429
LeaseLibrary ==
    [media |-> << <<P1>> >>,
     albums |-> << <<"A1">> >>,
     albumMedia |-> [u \in {"A1"} |-> << <<P1>> >>],
     answers |-> {200, 429}]

\* two pages of items, two pages of albums, two albums; the three items share a
\* file name and a creation month
TraversalLibrary ==
    [media |-> << <<P1, P2>>, <<P3>> >>,
     albums |-> << <<"A1">>, <<"A2">> >>,
     albumMedia |-> [u \in {"A1", "A2"} |->
                        IF u = "A1" THEN << <<P1>>, <<P3>> >> ELSE << <<P2>> >>],
     answers |-> {200, 429}]

\* one page with a video that is not ready, every kind of download answer
AnswersLibrary ==
    [media |-> << <<P1, V4>> >>,
     albums |-> << <<"A1">> >>,
     albumMedia |-> [u \in {"A1"} |-> << <<P1>> >>],
     answers |-> Answers]

SeqLibraries == {TraversalLibrary, AnswersLibrary}

\* the first page of the item listing carries a nextPageToken and no
\* 'mediaItems' field
SparseLibrary ==
    [media |-> << <<>>, <<P1>> >>,
     albums |-> << <<"A1">> >>,
     albumMedia |-> [u \in {"A1"} |-> << <<P1>> >>],
     answers |-> {200}]

----------------------------------------------------------------------------
(* Specifications *)

Next ==
    \/ \E c \in slots : Request(c)
    \/ \E c \in slots : RunCheck(c)
    \/ \E c \in slots : RunStart(c)
    \/ \E c \in slots : RunPoll(c)
    \/ \E c \in slots : Disconnect(c)
    \/ \E c \in slots : CrawlBegin(c)
    \/ \E c \in slots : CrawlWatchdog(c)
    \/ \E c \in slots : CrawlLoop(c)
    \/ \E c \in slots : ListMediaItems(c)
    \/ \E c \in slots : Classify(c)
    \/ \E c \in slots : \E k \in 1..MaxPage : HandleMediaitem(c, k)
    \/ \E c \in slots : Join(c)
    \/ \E c \in slots : Persist(c)
    \/ \E c \in slots : ListAlbums(c)
    \/ \E c \in slots : SaveAlbums(c)
    \/ \E c \in slots : SwitchToAlbum(c)
    \/ \E c \in slots : FirstAlbum(c)
    \/ \E c \in slots : ToAlbumItem(c)
    \/ \E c \in slots : NextAlbum(c)
    \/ \E c \in slots : End1(c)
    \/ \E c \in slots : End2(c)
    \/ \E c \in slots : End3(c)
    \/ Tick
    \/ Restart

\* concurrent requests against one small library
Init == InitWith(LeaseLibrary, {1, 2})
Spec == Init /\ [][Next]_vars

\* one request at a time
InitSeq == \E lib \in SeqLibraries : InitWith(lib, {1})
SpecSeq == InitSeq /\ [][Next]_vars

\* one request at a time against a database whose 'backup-stage' row holds a
\* value no transition of crawl() writes: 'end', a member of BackupStage that
\* is only held in memory, or a value that is no member at all
StoredStages == {END, "bogus"}
InitStored == \E st \in StoredStages : InitStage(TraversalLibrary, {1}, Some(st))
SpecStored == InitStored /\ [][Next]_vars

\* one request at a time against a library that answers with a sparse page
InitSparse == InitWith(SparseLibrary, {1})
SpecSparse == InitSparse /\ [][Next]_vars

\* libraries whose every call answers successfully: one with an item and an
\* album of that item, one whose album has no items, one without albums, one
\* without media items
QuietLibrary ==
    [media |-> << <<P1>> >>,
     albums |-> << <<"A1">> >>,
     albumMedia |-> [u \in {"A1"} |-> << <<P1>> >>],
     answers |-> {200}]
EmptyAlbumLibrary == [QuietLibrary EXCEPT !.albumMedia = [u \in {"A1"} |-> <<>>]]
NoAlbumsLibrary ==
    [QuietLibrary EXCEPT !.albums = <<>>, !.albumMedia = [u \in {} |-> <<>>]]
NoMediaLibrary == [QuietLibrary EXCEPT !.media = <<>>]
\* the album holds a video that is not ready
ProcessingLibrary ==
    [QuietLibrary EXCEPT !.media = << <<P1, V4>> >>,
                         !.albumMedia = [u \in {"A1"} |-> << <<P1, V4>> >>]]
QuietLibraries ==
    {QuietLibrary, EmptyAlbumLibrary, NoAlbumsLibrary, NoMediaLibrary, ProcessingLibrary}

\* one request at a time against a library that answers every call
InitQuiet == \E lib \in QuietLibraries : InitWith(lib, {1})
SpecQuiet == InitQuiet /\ [][Next]_vars

----------------------------------------------------------------------------
(* The calls of models.py on stored rows, with no crawl running *)

Users == {1, 2}
StoredKeys == {"backup-stage", "current-cycle"}
\* values a caller stores: strings and numbers, the falsy ones among them
StoredValues == {PyStr("album"), PyStr(""), PyInt(0)}
Defaults == {PyNone, PyInt(0)}
\* what the value column of a row may hold when the process starts: a text
\* set_user_option wrote, or content written past it
StoredContents == {json_dumps(v) : v \in StoredValues \cup {PyNone}}
                      \cup {NULL, <<"{">>}

\* the tables with at most one row for each user and key
OptionTables ==
    LET cells == Users \X StoredKeys
        pick  == [cells -> StoredContents \cup {<<>>}]
    IN  {{[user_id |-> cell[1], key |-> cell[2], value |-> f[cell]] :
              cell \in {x \in cells : f[x] # <<>>}} : f \in pick}

InitOptions ==
    /\ InitCrawl(LeaseLibrary, {1}, None)
    /\ option_table \in OptionTables
    /\ returned = NoCall

UnchangedCrawl ==
    UNCHANGED <<options, mediaitems, albums, albumitems, storage, global_crawler_lock,
                remote, slots, object, thread, observe>>

GetUserOption(user_id, key, default_value) ==
    /\ returned' = [op |-> "get", user_id |-> user_id, key |-> key,
                    arg |-> default_value]
                       @@ DB_get_user_option(option_table, user_id, key, default_value)
    /\ UNCHANGED option_table
    /\ UnchangedCrawl

SetUserOption(user_id, key, value) ==
    /\ option_table' = DB_set_user_option(option_table, user_id, key, value)
    /\ returned' = [op |-> "set", user_id |-> user_id, key |-> key, arg |-> value,
                    raised |-> "", value |-> PyNone]
    /\ UnchangedCrawl

NextOptions ==
    \/ \E u \in Users, k \in StoredKeys, d \in Defaults : GetUserOption(u, k, d)
    \/ \E u \in Users, k \in StoredKeys, v \in StoredValues \cup {PyNone} :
           SetUserOption(u, k, v)

SpecOptions == InitOptions /\ [][NextOptions]_vars

----------------------------------------------------------------------------
(* Stage ALBUM_ITEM on an album table and a stage argument drawn from small sets *)

\* the most rows of the album table
MaxAlbums == 3

\* one page of two albums, one item in each
AlbumLibrary ==
    [media |-> << <<P1>> >>,
     albums |-> << <<"A1", "A2">> >>,
     albumMedia |-> [u \in {"A1", "A2"} |-> << <<P1>> >>],
     answers |-> {200}]

\* album tables whose rows belong to the user of the crawl or to another user;
\* the user's rows are the albums of the library in their order
AlbumTables ==
    LET row(f, i) ==
            IF f[i]
            THEN [album_uid |-> IF \E j \in 1..(i - 1) : f[j] THEN "A2" ELSE "A1",
                  own |-> TRUE, last_seen |-> 0]
            ELSE [album_uid |-> "B1", own |-> FALSE, last_seen |-> 0]
    IN  UNION {{[i \in 1..n |-> row(f, i)] :
                  f \in {g \in [1..n -> BOOLEAN] :
                            Cardinality({i \in 1..n : g[i]}) <= 2}} : n \in 0..MaxAlbums}

\* the process starts on a database that holds stage ALBUM_ITEM, an album
\* table and a stage argument: none, the id of a row, or an id beyond the table
InitAlbums ==
    \E table \in AlbumTables, args \in {None} \cup {Some(n) : n \in 1..(MaxAlbums + 1)} :
        /\ InitProcess(AlbumLibrary, {1}, Some(ALBUM_ITEM), args)
        /\ albums = table
        /\ mediaitems = <<>>
        /\ disk = {}
        /\ partial = {}
        /\ option_table = {}
        /\ returned = NoCall

SpecAlbums == InitAlbums /\ [][Next]_vars

----------------------------------------------------------------------------
(* set_mediaitem on a table and a storage directory drawn from small sets *)

V5 == Video("i5", "b", "02", "READY")

StatusItems == {P1, P2, V5}

\* the record add_mediaitem stores for an item in an empty table; the thumbnail
\* column may be empty
record_of(item, with_thumbnail) ==
    LET filename == generate_filename({}, <<>>, item)
    IN  [mediaitem_uid |-> item.id, type |-> item_type_of(item),
         original_filename |-> item.filename, filename |-> filename,
         thumbnail |-> IF with_thumbnail
                       THEN thumbnail_of(filename, item_type_of(item)) ELSE <<>>,
         last_seen |-> 0]

\* the two files of a record
files_of(item) ==
    LET filename == generate_filename({}, <<>>, item)
    IN  {filename, join(THUMBNAILS_FOLDER, thumbnail_of(filename, item_type_of(item)))}

\* one record; each of its two files is absent, whole or partly written
InitStatus ==
    /\ InitProcess(LeaseLibrary, {1}, None, None)
    /\ albums = <<>>
    /\ option_table = {}
    /\ returned = NoCall
    /\ \E item \in StatusItems, with_thumbnail \in BOOLEAN :
           /\ mediaitems = <<record_of(item, with_thumbnail)>>
           /\ disk \in SUBSET files_of(item)
           /\ partial \in SUBSET disk

\* one call of set_mediaitem, its result kept as files_to_download
SetMediaitem(c, item) ==
    /\ files_to_download[c] = <<>>
    /\ LET r == set_mediaitem(mediaitems, disk, current_cycle[c], item)
       IN  /\ mediaitems' = r.table
           /\ files_to_download' = [files_to_download EXCEPT ![c] = <<r.info>>]
    /\ UNCHANGED <<options, albums, albumitems, storage, global_crawler_lock, remote,
                   slots, database, object, pc, backup_stage, album, response, task,
                   observe>>

NextStatus == \E c \in slots, item \in StatusItems : SetMediaitem(c, item)

SpecStatus == InitStatus /\ [][NextStatus]_vars

\* the steps of the crawl thread of slot c
CrawlStep(c) ==
    \/ CrawlBegin(c) \/ CrawlWatchdog(c) \/ CrawlLoop(c)
    \/ ListMediaItems(c) \/ Classify(c) \/ Join(c) \/ Persist(c)
    \/ \E k \in 1..MaxPage : HandleMediaitem(c, k)
    \/ ListAlbums(c) \/ SaveAlbums(c)
    \/ SwitchToAlbum(c) \/ FirstAlbum(c) \/ ToAlbumItem(c) \/ NextAlbum(c)
    \/ End1(c) \/ End2(c) \/ End3(c)

\* The clock advances, a started thread is scheduled until it ends, and a caller
\* in the wait loop of run() tests the lease again after each sleep. Nothing
\* obliges a consumer to poll, a new request to come or the process to restart.
FairSpec ==
    /\ Init /\ [][Next]_vars
    /\ WF_vars(Tick)
    /\ \A c \in Slots : /\ WF_vars(CrawlStep(c))
                         /\ WF_vars(RunCheck(c))
                         /\ WF_vars(RunStart(c))

----------------------------------------------------------------------------
(* The lease *)

\* the crawl loop of slot c is active: line 330 has run, the thread has not ended
Active(c) == Running(c) /\ pc[c] # "started"

\* C1: for any number of concurrent callers of run() and every interleaving of
\* their steps, at most one crawl loop is active at any time.
C1_SingleFlight == Cardinality({c \in Slots : Active(c)}) <= 1

\* C2: whenever a crawl loop stops, on every exit path, the lease flag is
\* cleared: no step ends a loop and leaves the flag set.
C2_ReleasedOnExit ==
    [][\A c \in Slots : Active(c) /\ ~Active(c)' => ~global_crawler_lock']_vars

\* C3: once the consumer of a running crawl has stopped polling, the loop
\* eventually stops and the lease flag is clear.
C3_WatchdogExit ==
    \A c \in Slots :
        (gen[c] = "closed" /\ Active(c)) ~> (~Active(c) /\ ~global_crawler_lock)

\* no crawl loop is running and none has been started
NoLoop == \A d \in Slots : ~Running(d)

\* C4: a caller that waits for the lease starts no loop while the flag is set,
\* and once the holder's loop has stopped it eventually leaves the wait loop
\* (it acquires the lease, unless its consumer has gone).
C4_WaiterProceeds ==
    /\ [][\A c \in Slots : gen[c] = "waiting" /\ global_crawler_lock
                               => gen'[c] \in {"waiting", "closed", "new"}]_vars
    /\ \A c \in Slots : (gen[c] = "waiting" /\ NoLoop) ~> (gen[c] # "waiting")

----------------------------------------------------------------------------
(* The cycle counter *)

\* C7: the persisted 'current-cycle' value never decreases, over any sequence
\* of requests, one constructed while another's crawl completes traversals
\* included.
C7_CycleMonotonic == [][persisted_cycle' >= persisted_cycle]_vars

----------------------------------------------------------------------------
(* The traversal *)

IsPrefix(a, b) == Len(a) <= Len(b) /\ SubSeq(b, 1, Len(a)) = a

RECURSIVE flatten(_)
flatten(pages) == IF pages = <<>> THEN <<>> ELSE Head(pages) \o flatten(Tail(pages))

\* the listing calls of pages 1..Len(pages) of one collection: the first without
\* a token, each later one with the token the page before it returned
calls_of(stage, album_uid, coll, pages) ==
    [n \in 1..Len(pages) |->
        Call(stage, album_uid, IF n = 1 THEN None ELSE Token(coll, n))]

\* the ALBUM_ITEM calls of the albums uids[k..], in that order
RECURSIVE album_calls(_, _)
album_calls(uids, k) ==
    IF k > Len(uids) THEN <<>>
    ELSE calls_of(ALBUM_ITEM, Some(uids[k]), uids[k], remote.albumMedia[uids[k]])
         \o album_calls(uids, k + 1)

\* the album uids in ascending order of their internal id
AlbumsById == [k \in Rows(albums) |-> albums[k].album_uid]

\* MEDIA_ITEM pages 1..M, ALBUM pages 1..A, the pages of each album by internal id
ExpectedCalls ==
    calls_of(MEDIA_ITEM, None, MEDIA_ITEM, remote.media)
    \o calls_of(ALBUM, None, ALBUM, remote.albums)
    \o album_calls(AlbumsById, 1)

\* C5: one full traversal issues its listing calls in the order MEDIA_ITEM
\* pages 1..M, ALBUM pages 1..A, then the ALBUM_ITEM pages of each of the K
\* albums in ascending internal id order; the persisted cycle is incremented
\* once, after the last of them and not before.
C5_TraversalOrder ==
    trace.clean =>
        /\ IsPrefix(trace.calls, ExpectedCalls)
        /\ persisted_cycle = trace.cycle0 + (IF trace.complete THEN 1 ELSE 0)
        /\ trace.complete => /\ trace.calls = ExpectedCalls
                              /\ Len(albums) = Len(flatten(remote.albums))

\* a traversal of several pages in every stage was followed to its end
C5_Witness ==
    /\ trace.clean /\ trace.complete
    /\ Len(remote.media) > 1 /\ Len(remote.albums) > 1
    /\ Len(trace.calls) > Len(remote.media) + Len(remote.albums) + Len(albums)
    /\ persisted_cycle = 1

\* C6: when the crawl stopped after page N of stage MEDIA_ITEM was processed
\* (its token persisted) and before page N+1 was requested, the first listing
\* call of the next run is a MEDIA_ITEM listing with the token page N returned.
C6_ResumesAtToken ==
    \A c \in Slots :
        LET r == resume[c]
        IN  (/\ r.first # None
             /\ r.from # None
             /\ r.from[1].stage = MEDIA_ITEM
             /\ r.from[1].token # None)
            => r.first[1] = Call(MEDIA_ITEM, None, r.from[1].token)

\* a run has made its first listing call after a stop behind a MEDIA_ITEM page
\* that returned a token
C6_Witness ==
    \E c \in Slots :
        /\ resume[c].first # None
        /\ resume[c].from # None
        /\ resume[c].from[1].stage = MEDIA_ITEM
        /\ resume[c].from[1].token # None
        /\ pc[c] \in {"classify", "download"}

----------------------------------------------------------------------------
(* File names *)

\* C8: after any sequence of classified pages no two MediaItem records hold
\* the same assigned filename, two items of one page classified before either
\* file is on disk included.
C8_UniqueFilenames ==
    \A i, j \in Rows(mediaitems) :
        i # j => mediaitems[i].filename # mediaitems[j].filename

\* the remote item a record was made of
item_of(uid) ==
    LET items == flatten(remote.media)
    IN  items[CHOOSE k \in 1..Len(items) : items[k].id = uid]

\* the records made before row i of items that share its original filename and
\* its creation month
colliding_before(i) ==
    {j \in 1..(i - 1) :
        /\ mediaitems[j].original_filename = mediaitems[i].original_filename
        /\ folder_of(item_of(mediaitems[j].mediaitem_uid))
               = folder_of(item_of(mediaitems[i].mediaitem_uid))}

\* name.ext for the first item, name-n.ext for the n-th
nth_name(original, n) == IF n = 1 THEN original ELSE with_suffix(original, n)

\* C9: of the items that share an original filename name.ext and a creation
\* month, the first is assigned name.ext, the second name-2.ext and the third
\* name-3.ext.
C9_SuffixSequence ==
    \A i \in Rows(mediaitems) :
        mediaitems[i].filename =
            join(folder_of(item_of(mediaitems[i].mediaitem_uid)),
                 nth_name(mediaitems[i].original_filename,
                          Cardinality(colliding_before(i)) + 1))

----------------------------------------------------------------------------
(* The second pass *)

\* in the pass in progress the items of uids are all given the status
\* already-downloaded, and no download is made for any of them
NothingToDo(uids) ==
    \A c \in Slots :
        pc[c] = "download" =>
            \A k \in 1..Len(files_to_download[c]) :
                files_to_download[c][k].mediaitem_uid \in uids =>
                    /\ files_to_download[c][k].download_status = ALREADY_DOWNLOADED
                    /\ task[c][k] \in {"start", "done", "cancelled"}

----------------------------------------------------------------------------
(* Fatal and skipped downloads *)

persisted_token == options["next-page-token"]

\* C11: when a download of page N answers HTTP 429 the run is aborted: the
\* answer deletes no file, the page operation ends the thread instead of
\* persisting a token, and from the listing call of page N to the abort the
\* persisted continuation token stays the one page N was fetched with.
C11_RateLimitAborts ==
    [][\A c \in Slots :
          /\ (fatal[c] = "" /\ fatal'[c] = "429")
                => disk \subseteq disk' /\ options' = options
          /\ (fatal[c] = "429" /\ pc[c] = "download" /\ pc'[c] # "download")
                => /\ pc'[c] \in {"dead", "idle"}
                   /\ disk' = disk
                   /\ options' = options
          /\ pc[c] \in {"list", "classify", "download"}
                => persisted_token' = persisted_token]_vars

\* a run was aborted by a 429 in a later page: files are on disk, a token is
\* persisted
C11_Witness ==
    \E c \in Slots :
        /\ fatal[c] = "429" /\ pc[c] = "dead"
        /\ disk # {}
        /\ persisted_token # None

\* C12: an HTTP 404 answer to a download of an item, of its byte file or of its
\* thumbnail, skips only that item: it never is the fatal error of a run.
C12_NotFoundSkips == \A c \in Slots : fatal[c] # "404"

----------------------------------------------------------------------------
(* The watchdog and the pool of a page *)

\* C13: a crawl loop ends cleanly only at the top of the loop, past its
\* deadline and between two page operations, and that step changes none of
\* the persisted stage, stage arguments, continuation token and cycle.
C13_WatchdogKeepsOptions ==
    [][\A c \in Slots :
          pc[c] # "done" /\ pc'[c] = "done"
              => /\ pc[c] = "loop"
                 /\ lapsed(c)
                 /\ options' = options]_vars

C13_Witness ==
    \E c \in Slots :
        /\ pc[c] = "done"
        /\ persisted_token # None
        /\ options["backup-stage"] = Some(ALBUM_ITEM)
        /\ options["backup-stage-args"] # None

\* C14: while a crawl loop is anywhere but in the pool of a page, no
\* download call of a page is still to run or running: every call of page N
\* has ended (downloaded, skipped, failed or cancelled after a failure)
\* before the loop leaves the pool, hence before its next listing call.
C14_PoolJoinedBeforeListing ==
    /\ \A c \in Slots :
          pc[c] \notin {"download"}
              => \A k \in 1..Len(task[c]) :
                     task[c][k] \in {"done", "skipped", "failed", "cancelled"}
    /\ \A c \in Slots :
          pc[c] \in {"list", "list_albums"} => task[c] = <<>>

\* a loop is about to list page 2 after the downloads of page 1
C14_Witness ==
    \E c \in Slots :
        /\ pc[c] = "list"
        /\ persisted_token # None
        /\ disk # {}

----------------------------------------------------------------------------
(* Fatal conditions of the crawl loop *)

\* the stage values crawl() has a branch for
RecognizedStages == {MEDIA_ITEM, ALBUM, ALBUM_ITEM}

\* C15: while the persisted 'backup-stage' value is none of the recognized
\* stage values, no crawl loop issues a listing call or works on a page: a
\* loop started on such a value aborts with a fatal error first.
C15_UnknownStageAborts ==
    (/\ options["backup-stage"] # None
     /\ options["backup-stage"][1] \notin RecognizedStages)
        => \A c \in Slots :
               pc[c] \notin {"list", "list_albums", "classify", "download", "persist"}

\* the response the listing call of slot c is about to receive
listed(c) ==
    LET page_token == get_user_option(options, "next-page-token", None)
    IN  IF pc[c] = "list_albums" THEN listing(remote.albums, ALBUM, page_token)
        ELSE listing(collection_of(c), collection_name(c), page_token)

\* C16: a listing call whose response lacks its collection field
\* ('mediaItems' of an item listing or album search, 'albums' of an album
\* listing) ends the crawl loop, with or without a continuation token in the
\* response, and leaves the persisted options as they were.
C16_MissingFieldAborts ==
    [][\A c \in Slots :
          (/\ pc[c] \in {"list", "list_albums"}
           /\ pc'[c] # pc[c]
           /\ ~listed(c).has_items)
              => /\ pc'[c] \in {"dead", "idle"}
                 /\ options' = options]_vars

\* the conditions that end a crawl loop other than a failure of transport:
\* exceptions of crawl() and download statuses that raise
FatalConditions == {"invalid response", "unknown stage"}
                       \cup {ToString(a) : a \in Answers \ {200, TRANSPORT}}

\* C17: the step in which a crawl loop meets a fatal condition (invalid
\* listing response, HTTP 429, unknown stage, another non-2xx download
\* status) puts a line on the progress queue of its request.
C17_FatalIsReported ==
    [][\A c \in Slots :
          (/\ fatal[c] = ""
           /\ fatal'[c] \in FatalConditions
           /\ gen[c] # "closed")
              => Len(log_queue'[c]) > Len(log_queue[c])]_vars

----------------------------------------------------------------------------
(* The progress stream *)

\* C18: the progress stream of a request ends when its crawl loop has stopped
\* on a fatal error: once the thread is dead and its queue drained, the
\* generator of run() does not go on to another pass of its polling loop.
C18_StreamEndsOnFatal ==
    [][\A c \in Slots :
          (/\ pc[c] = "dead"
           /\ gen[c] = "yielded"
           /\ log_queue[c] = <<>>)
              => gen'[c] # "polling"]_vars

----------------------------------------------------------------------------
(* The persisted cursor *)

persisted_stage == get_user_option(options, "backup-stage", MEDIA_ITEM)
persisted_args == options["backup-stage-args"]

\* C19: in every state of the database, the states between two option writes
\* of one transition included, stage ALBUM_ITEM is stored with an album id
\* and stages MEDIA_ITEM and ALBUM are stored without stage arguments.
C19_StageArgsValid ==
    /\ persisted_stage = ALBUM_ITEM => persisted_args # None
    /\ persisted_stage \in {MEDIA_ITEM, ALBUM} => persisted_args = None

----------------------------------------------------------------------------
(* Files of failed downloads *)

\* the two destination files of the downloads of an item
destinations(info) == {info.filename, join(THUMBNAILS_FOLDER, info.thumbnail)}

\* C20: after a download call has failed, on a status other than 200 or on a
\* transfer that broke, none of its destination files is on disk incompletely
\* written; and no item is classified as already downloaded on a file that
\* is incompletely written.
C20_NoPartialFileLeft ==
    \A c \in Slots : \A k \in 1..Len(files_to_download[c]) :
        LET info == files_to_download[c][k]
        IN  /\ partial \subseteq disk
            /\ (k <= Len(task[c]) /\ task[c][k] = "failed")
                   => destinations(info) \cap partial = {}
            /\ info.download_status = ALREADY_DOWNLOADED
                   => destinations(info) \cap partial = {}

\* the transfer of a thumbnail broke after the bytes of its item were fetched
C20_Witness ==
    \E c \in Slots : \E k \in 1..Len(files_to_download[c]) :
        LET info == files_to_download[c][k]
        IN  /\ pc[c] = "download"
            /\ k <= Len(task[c]) /\ task[c][k] = "failed"
            /\ fatal[c] = "transport"
            /\ info.filename \in disk
            /\ join(THUMBNAILS_FOLDER, info.thumbnail) \notin disk

----------------------------------------------------------------------------
(* Failed listing calls *)

\* C21: a listing call that fails in transport ends the crawl loop, and the
\* persisted continuation token, stage, stage arguments and cycle are after
\* the failure what they were before the call.
C21_ListingFailureKeepsCursor ==
    [][\A c \in Slots :
          (pc[c] \in {"list", "list_albums"} /\ fatal'[c] = "listing")
              => /\ pc'[c] = "dead"
                 /\ options' = options]_vars

\* an album listing failed after the stage had been persisted
C21_Witness ==
    \E c \in Slots :
        /\ pc[c] = "dead"
        /\ fatal[c] = "listing"
        /\ persisted_stage = ALBUM
        /\ TRANSPORT \in remote.answers

----------------------------------------------------------------------------
(* Records of the tables *)

\* C22: a record of the mediaitems table that holds a filename keeps it: no
\* step removes the record or changes or clears its filename.
C22_FilenameIsKept ==
    [][\A i \in 1..Len(mediaitems) :
          mediaitems[i].filename # <<>>
              => /\ i <= Len(mediaitems')
                 /\ mediaitems'[i].filename = mediaitems[i].filename]_vars

\* an item whose record held a filename was classified again, its files on disk
C22_Witness ==
    \E c \in Slots : \E k \in 1..Len(files_to_download[c]) :
        LET info == files_to_download[c][k]
        IN  /\ info.download_status = ALREADY_DOWNLOADED
            /\ info.id \in 1..Len(mediaitems)
            /\ mediaitems[info.id].filename = info.filename
            /\ info.filename # <<>>

\* C23: however often the pages of an album are listed again, in a later
\* cycle or replayed after an aborted page, the albumitems table holds at most
\* one record for each pair of album uid and mediaitem uid.
C23_OneMembershipPerPair ==
    \A i, j \in 1..Len(albumitems) :
        (/\ albumitems[i].album_uid = albumitems[j].album_uid
         /\ albumitems[i].mediaitem_uid = albumitems[j].mediaitem_uid) => i = j

\* a membership was seen again in the second cycle
C23_Witness ==
    \E i \in 1..Len(albumitems) : albumitems[i].last_seen >= 1

----------------------------------------------------------------------------
(* The option store *)

\* C24: get_user_option never raises, whatever the row of the user and key
\* holds.
C24_GetNeverRaises == returned.op = "get" => returned.raised = ""

\* a lookup met a value that is not valid JSON and returned the default
C24_Witness ==
    /\ returned.op = "get"
    /\ returned.raised = ""
    /\ returned.value = returned.arg
    /\ \E row \in option_records(option_table, returned.user_id, returned.key) :
           row.value = <<"{">>

\* the rows of every other user and key
other_rows(table, user_id, key) == table \ option_records(table, user_id, key)

\* C25: after set_user_option(user, key, v) with v not None, get_user_option
\* (user, key, d) returns v for every d; after set_user_option(user, key, None)
\* it returns d; and the rows of other users and other keys are as before.
C25_SetThenGet ==
    [][returned'.op = "set" =>
          LET u == returned'.user_id
              k == returned'.key
              v == returned'.arg
          IN  /\ \A d \in Defaults :
                    DB_get_user_option(option_table', u, k, d)
                        = [raised |-> "", value |-> IF v = PyNone THEN d ELSE v]
              /\ other_rows(option_table', u, k) = other_rows(option_table, u, k)]_vars

\* a falsy value was stored over a row, beside a row of the other user
C25_Witness ==
    /\ returned.op = "set"
    /\ returned.arg = PyInt(0)
    /\ option_records(option_table, returned.user_id, returned.key)
           = {[user_id |-> returned.user_id, key |-> returned.key, value |-> <<"0">>]}
    /\ \E row \in other_rows(option_table, returned.user_id, returned.key) :
           row.key = returned.key

----------------------------------------------------------------------------
(* Pages and their continuation tokens *)

\* C26: the persisted continuation token changes only in the step that
\* follows the joined pool of a page, none of whose download calls failed; a
\* page whose pool ends on a failed call leaves the persisted options as they
\* were; and the first listing call after such a page is the listing call of
\* that page again.
C26_TokenAfterDownloads ==
    [][/\ persisted_token' # persisted_token
             => \E c \in Slots :
                    /\ pc[c] = "persist"
                    /\ \A k \in 1..Len(task[c]) : task[c][k] \in {"done", "skipped"}
       /\ \A c \in Slots :
             (pc[c] = "download" /\ pc'[c] = "dead") => options' = options
       /\ trace'.replay # None => trace'.replay = trace'.aborted]_vars

\* page 2 was listed again after a failed download in it
C26_Witness ==
    /\ trace.replay # None
    /\ trace.replay[1].token # None
    /\ \E c \in Slots : pc[c] \in {"classify", "download"}

\* C27: the persisted continuation token is empty in every step that changes
\* the persisted stage or stage arguments, and a listing call about to be
\* issued with a token lists the collection (the media items, the albums, or
\* the current album) whose listing returned that token.
C27_TokenOfItsCollection ==
    [][/\ (persisted_stage' # persisted_stage \/ persisted_args' # persisted_args)
             => persisted_token = None /\ persisted_token' = None
       /\ \A c \in Slots :
             LET page_token == get_user_option(options, "next-page-token", None)
             IN  /\ pc[c] = "list" => token_matches(collection_name(c), page_token)
                 /\ pc[c] = "list_albums" => token_matches(ALBUM, page_token)]_vars

\* a loop that resumed in the middle of an album is about to list its next page
C27_Witness ==
    \E c \in Slots :
        /\ pc[c] = "list"
        /\ persisted_token # None
        /\ persisted_stage = ALBUM_ITEM
        /\ resume[c].from # None
        /\ resume[c].first = None

----------------------------------------------------------------------------
(* Interrupted traversals *)

\* C28: a traversal that watchdog exits have interrupted between pages, and
\* later runs have resumed, has issued over all its runs a prefix of the
\* listing calls of the uninterrupted traversal of the same library, the whole
\* sequence once it is complete, and has incremented the persisted cycle once
\* when it is complete and not before.
C28_InterruptedTraversal ==
    (trace.clean /\ trace.exits > 0) =>
        /\ IsPrefix(trace.calls, ExpectedCalls)
        /\ trace.complete => trace.calls = ExpectedCalls
        /\ persisted_cycle = trace.cycle0 + (IF trace.complete THEN 1 ELSE 0)

\* a traversal was completed in three runs
C28_Witness ==
    /\ trace.clean /\ trace.complete
    /\ trace.exits = MaxExits
    /\ Len(remote.media) > 1

----------------------------------------------------------------------------
(* Traversals of small libraries *)

\* C29: against a finite library all of whose calls answer successfully, one
\* without media items, without albums or with an album without items
\* included, no crawl loop ends on an error: it goes on to END, increments the
\* persisted cycle and continues with stage MEDIA_ITEM.
C29_QuietLibraryIsTraversed ==
    \A c \in Slots : pc[c] # "dead" /\ fatal[c] = ""

----------------------------------------------------------------------------
(* The deadline *)

\* the positions of a page operation and of the option writes that follow it
InPage == {"list", "classify", "download", "persist", "list_albums", "save_albums",
           "to_album", "first_album", "to_albumitem", "next_album",
           "end1", "end2", "end3"}

\* C30: a deadline that lapses while a page operation is under way does not
\* end it: the loop takes its next step as it would have, and only at the
\* check at the top of the loop does a lapsed deadline end the loop, before
\* another page operation starts.
C30_DeadlineCheckedBetweenPages ==
    [][\A c \in Slots :
          /\ (pc[c] \in InPage /\ lapsed(c) /\ pc'[c] # pc[c])
                 => pc'[c] \in (InPage \cup {"loop", "dead", "idle"})
          /\ (pc[c] = "loop" /\ lapsed(c) /\ pc'[c] # pc[c])
                 => pc'[c] \in {"done", "idle"}]_vars

\* the deadline lapsed between the two downloads of an item
C30_Witness ==
    \E c \in Slots : \E k \in 1..Len(task[c]) :
        /\ pc[c] = "download"
        /\ lapsed(c)
        /\ task[c][k] = "thumb"

----------------------------------------------------------------------------
\* C31: run() sets the deadline one full interval ahead in the step that starts
\* the crawl thread, so the loop begins with a deadline; and the loop leaves
\* through the watchdog only after more than one interval went by without a
\* pass of the polling loop: a consumer that polls within every interval never
\* sees the loop stopped by the watchdog.
C31_PolledLoopIsNotStopped ==
    [][\A c \in Slots :
          /\ (gen[c] = "acquired" /\ pc'[c] = "started")
                 => crawling_termination_time'[c] = Some(LeaseTicks)
          /\ (pc[c] = "started" /\ pc'[c] = "loop")
                 => crawling_termination_time[c] # None
          /\ (pc[c] = "loop" /\ pc'[c] = "done")
                 => unpolled[c] > LeaseTicks]_vars

\* a loop that has listed pages and still runs at the end of an interval whose
\* start the consumer marked with a pass that found the queue empty
C31_Witness ==
    \E c \in slots : /\ pc[c] = "loop"
                     /\ gen[c] = "polling"
                     /\ unpolled[c] = LeaseTicks
                     /\ ~lapsed(c)
                     /\ Len(trace.calls) >= 2

----------------------------------------------------------------------------
(* The record tables *)

\* C32: where page operations follow one another, a page listed and classified
\* again after an abort included, the mediaitems table holds at most one record
\* for each remote uid.
C32_OneRecordPerUid ==
    \A i, j \in Rows(mediaitems) :
        mediaitems[i].mediaitem_uid = mediaitems[j].mediaitem_uid => i = j

\* a page listed again after an abort has been classified a second time, and an
\* item of it had its record from the first time
C32_Witness ==
    \E c \in slots :
        /\ trace.aborted # None /\ trace.replay = trace.aborted
        /\ pc[c] = "download"
        /\ \E k \in 1..Len(response[c].items) :
               /\ ~not_ready(response[c].items[k])
               /\ mediaitem_by_uid(mediaitems, response[c].items[k].id) # 0

\* C33: for a record that exists and has a filename, set_mediaitem answers
\* "item and thumbnail" when the byte file is not on disk, "thumbnail only" when
\* the byte file is there and the thumbnail file is not, and "already
\* downloaded" when both are there, whichever of the two files exist.
C33_StatusFollowsFiles ==
    [][\A c \in slots :
          files_to_download'[c] # files_to_download[c] /\ Len(files_to_download'[c]) = 1
          => LET info == files_to_download'[c][1]
                 row  == mediaitem_by_uid(mediaitems, info.mediaitem_uid)
             IN  (row # 0 /\ mediaitems[row].filename # <<>>)
                 => LET byte  == mediaitems[row].filename \in disk
                        thumb == join(THUMBNAILS_FOLDER, info.thumbnail) \in disk
                    IN  /\ ~byte => info.download_status = ITEM_AND_THUMBNAIL
                        /\ (byte /\ ~thumb) => info.download_status = THUMBNAIL_ONLY
                        /\ (byte /\ thumb) => info.download_status = ALREADY_DOWNLOADED
      ]_vars

\* the call found the byte file of the record and no thumbnail file
C33_Witness ==
    \E c \in slots :
        /\ Len(files_to_download[c]) = 1
        /\ files_to_download[c][1].download_status = THUMBNAIL_ONLY
        /\ pc[c] = "idle"
        /\ files_to_download[c][1].filename \in disk
        /\ join(THUMBNAILS_FOLDER, files_to_download[c][1].thumbnail) \notin disk

\* C34: classifying a page leaves the mediaitems table without a record for a
\* video that is not ready and leaves the records of that uid as they were,
\* while every other item of the page gets its record and its download; the
\* call of the pool for the video touches no file and puts one 'not ready'
\* line on the progress queue.
C34_NotReadyIsLeftOut ==
    [][\A c \in slots :
          /\ (pc[c] = "classify" /\ pc'[c] = "download")
             => LET items == response[c].items
                    processing(item) ==
                        item.mimeType[1] = "video" /\ item.status # "READY"
                IN  /\ Len(files_to_download'[c]) = Len(items)
                    /\ \A k \in 1..Len(items) :
                          IF processing(items[k])
                          THEN /\ \A i \in Rows(mediaitems') :
                                     mediaitems'[i].mediaitem_uid = items[k].id
                                         => i \in Rows(mediaitems)
                                            /\ mediaitems'[i] = mediaitems[i]
                               /\ files_to_download'[c][k].download_status = NOT_READY
                          ELSE /\ mediaitem_by_uid(mediaitems', items[k].id) # 0
                               /\ files_to_download'[c][k].download_status # NOT_READY
          /\ \A k \in 1..Len(task[c]) :
                (/\ pc[c] = "download" /\ pc'[c] = "download"
                 /\ task[c][k] = "start" /\ task'[c][k] \notin {"start", "cancelled"}
                 /\ files_to_download[c][k].download_status = NOT_READY)
                => /\ task'[c][k] = "done"
                   /\ storage' = storage
                   /\ log_queue'[c] =
                          log_queue[c] \o Line(files_to_download[c][k], "not ready")
      ]_vars

\* a page held a video that is not ready and a photo: the call for the video is
\* over, the video has no record, the photo has its record and its files
C34_Witness ==
    \E c \in slots : \E k, j \in 1..Len(files_to_download[c]) :
        /\ pc[c] = "download"
        /\ files_to_download[c][k].download_status = NOT_READY
        /\ task[c][k] = "done"
        /\ mediaitem_by_uid(mediaitems, files_to_download[c][k].mediaitem_uid) = 0
        /\ files_to_download[c][j].download_status = ITEM_AND_THUMBNAIL
        /\ task[c][j] = "done"
        /\ mediaitem_by_uid(mediaitems, files_to_download[c][j].mediaitem_uid) # 0
        /\ files_to_download[c][j].filename \in disk

----------------------------------------------------------------------------
(* The stages *)

\* what crawl() does once the album listing is exhausted (lines 348-355)
AlbumStageLeft(c) ==
    /\ (pc[c] = "first_album" /\ pc'[c] \notin {"first_album", "idle"})
          => IF albums # <<>>
             THEN /\ pc'[c] = "to_albumitem"
                  /\ options'["backup-stage-args"] = Some(1)
             ELSE pc'[c] = "end1" /\ backup_stage'[c] = END
    /\ (pc[c] = "to_albumitem" /\ pc'[c] \notin {"to_albumitem", "idle"})
          => /\ options'["backup-stage"] = Some(ALBUM_ITEM)
             /\ options["backup-stage-args"] = Some(1)
             /\ backup_stage'[c] = ALBUM_ITEM

\* C35: when the album listing is exhausted, the first album by id becomes the
\* stage argument and the stage ALBUM_ITEM; a loop in stage ALBUM whose user has
\* no album does not end there on an error but goes on to END.
C35_AlbumStageExhausted ==
    [][\A c \in slots :
          /\ AlbumStageLeft(c)
          /\ (backup_stage[c] = ALBUM /\ Running(c) /\ flatten(remote.albums) = <<>>)
                => pc'[c] # "dead"]_vars

\* C36: in stage ALBUM_ITEM the loop takes the user's album whose id is the
\* stage argument, else the user's album with the smallest id above it, else
\* goes to END; when the pages of the album are exhausted the stage argument
\* becomes the next larger id of the user's albums and the stage stays, or the
\* stage goes to END when there is none.
C36_CurrentAlbum ==
    [][\A c \in slots :
          LET own   == {i \in Rows(albums) : albums[i].own}
              args  == IF options["backup-stage-args"] = None THEN 0
                       ELSE options["backup-stage-args"][1]
              next(id) == CHOOSE i \in own : i > id /\ \A j \in own : j > id => i <= j
              more(id) == \E i \in own : i > id
          IN  /\ (/\ pc[c] = "loop" /\ backup_stage[c] = ALBUM_ITEM
                  /\ pc'[c] \in {"list", "end1"})
                 => IF args \in own
                    THEN pc'[c] = "list" /\ album'[c] = Some(args)
                    ELSE IF more(args)
                    THEN pc'[c] = "list" /\ album'[c] = Some(next(args))
                    ELSE pc'[c] = "end1" /\ backup_stage'[c] = END
              /\ (pc[c] = "next_album" /\ pc'[c] \in {"loop", "end1"})
                 => IF more(album[c][1])
                    THEN /\ options'["backup-stage-args"] = Some(next(album[c][1]))
                         /\ options'["backup-stage"] = Some(ALBUM_ITEM)
                         /\ backup_stage'[c] = ALBUM_ITEM /\ pc'[c] = "loop"
                    ELSE pc'[c] = "end1" /\ backup_stage'[c] = END
      ]_vars

\* the stage argument names no album of the user, and the loop lists the
\* user's next album above it
C36_Witness ==
    \E c \in slots :
        /\ pc[c] = "list" /\ backup_stage[c] = ALBUM_ITEM
        /\ options["backup-stage-args"] # None
        /\ album[c] # None
        /\ album[c][1] > options["backup-stage-args"][1]
        /\ albums[album[c][1]].own

----------------------------------------------------------------------------
(* The progress queue *)

\* C37: while the consumer iterates the generator, a line put on the progress
\* queue stays there, behind the lines put before it, until a pass of the
\* polling loop; the pass hands all lines of the queue to the consumer in the
\* order they were put and leaves the queue empty, and on an empty queue it
\* ends without a chunk: every line is emitted once, in order, and no pass
\* waits for a line.
C37_LinesEmittedOnceInOrder ==
    [][\A c \in slots :
          (gen[c] \in {"polling", "yielded"} /\ gen'[c] \in {"polling", "yielded"})
          => \/ /\ output'[c] = log_queue[c]
                /\ log_queue'[c] = <<>>
                /\ gen'[c] = IF log_queue[c] # <<>> THEN "yielded" ELSE "polling"
             \/ /\ output'[c] = output[c]
                /\ gen'[c] = gen[c]
                /\ IsPrefix(log_queue[c], log_queue'[c])]_vars

\* a pass has handed a chunk of two lines to the consumer
C37_Witness ==
    \E c \in slots : gen[c] = "yielded" /\ Len(output[c]) = 2 /\ log_queue[c] = <<>>

----------------------------------------------------------------------------
(* The persisted stage *)

\* C38: in every state, those between two option writes included, the
\* persisted 'backup-stage' is absent or one of MEDIA_ITEM, ALBUM, ALBUM_ITEM:
\* END is never written.
C38_EndIsNeverPersisted ==
    options["backup-stage"] \in {None, Some(MEDIA_ITEM), Some(ALBUM), Some(ALBUM_ITEM)}

\* a loop has passed END: its first option write is done, the others are not
C38_Witness ==
    \E c \in slots : /\ pc[c] = "end2"
                     /\ options["backup-stage"] = Some(MEDIA_ITEM)
                     /\ options["backup-stage-args"] # None

----------------------------------------------------------------------------
(* The membership rows *)

\* C39: every row of the albumitems table names a media item uid that has a
\* record in the mediaitems table, also after a page of an album that holds a
\* video that is not ready.
C39_MembershipHasRecord ==
    \A i \in Rows(albumitems) :
        mediaitem_by_uid(mediaitems, albumitems[i].mediaitem_uid) # 0

----------------------------------------------------------------------------
(* The names of a record *)

\* C40: every record of the mediaitems table has a filename and a thumbnail
\* path that are not empty, in every state from its insertion on: no
\* classification finds a record of the crawl without a filename.
C40_RecordsAreNamed ==
    \A i \in Rows(mediaitems) :
        mediaitems[i].filename # <<>> /\ mediaitems[i].thumbnail # <<>>

\* a record inserted in one cycle was found again, with its names, in the next
C40_Witness ==
    \E i \in Rows(mediaitems) :
        /\ mediaitems[i].last_seen >= 1
        /\ mediaitems[i].filename # <<>>
        /\ \E c \in slots : pc[c] = "download" /\ current_cycle[c] >= 1

====
